---- MODULE Spec2Model ----
(***************************************************************************)
(* A model of the DuckDB + CSV data store of drift-logger:                 *)
(*   src/unnamed/part_002                 CsvParser (the CSV codec)          *)
(*   src/src/lib/types/dataStore.ts       schema, headers, validation rules  *)
(*   src/src/lib/dataStore/duckdbStore.ts DuckDBStore (the structured store) *)
(*                                                                         *)
(* A JavaScript string is a sequence of atoms.  An atom is one character,  *)
(* or a word: a run of characters none of which the codec tests for (no    *)
(* delimiter, quote, backslash, line terminator or blank, and no n or r    *)
(* right after a backslash), so that every loop of the codec copies or     *)
(* compares a word as it would each of its characters.  Spelling gives the *)
(* characters of a word; the validation patterns, the SQL comparisons and  *)
(* the searches work on the spelled-out string.  A file is its content, a  *)
(* string, together with whether it exists.                                *)
(***************************************************************************)
EXTENDS Integers, Sequences, FiniteSets, TLC

\* ------------------------------------------------------------------ bounds
\* The clock (milliseconds since the first call) stops ticking here.
MaxClock == 1
\* No save is issued when the target file already holds this many data lines.
MaxRows == 2
\* uuidv4() is called at most this many times in a run.
MaxUuid == 4
\* uuidv4() is called at most this many times in a run of queries.
MaxQueryUuid == 6

\* The most rows task_logs.csv holds after an import.
MaxImportRows == 3

\* ------------------------------------------------------- JavaScript strings
\* The characters of an atom.
Spelling(a) ==
    CASE a = "2024-01-03" -> <<"2", "0", "2", "4", "-", "0", "1", "-", "0", "3">>
      [] a = "2024-01-05" -> <<"2", "0", "2", "4", "-", "0", "1", "-", "0", "5">>
      [] a = "2024-01-07" -> <<"2", "0", "2", "4", "-", "0", "1", "-", "0", "7">>
      [] a = "09:00" -> <<"0", "9", ":", "0", "0">>
      [] a = "09:30" -> <<"0", "9", ":", "3", "0">>
      [] a = "10:00" -> <<"1", "0", ":", "0", "0">>
      [] a = "10:30" -> <<"1", "0", ":", "3", "0">>
      [] a = "17:00" -> <<"1", "7", ":", "0", "0">>
      [] a = "18:00" -> <<"1", "8", ":", "0", "0">>
      [] a = "11111111-1111-1111-1111-111111111111" ->
            <<"1", "1", "1", "1", "1", "1", "1", "1", "-", "1", "1", "1", "1", "-", "1", "1", "1", "1", "-", "1", "1", "1", "1", "-", "1", "1", "1", "1", "1", "1", "1", "1", "1", "1", "1", "1">>
      [] a = "22222222-2222-2222-2222-222222222222" ->
            <<"2", "2", "2", "2", "2", "2", "2", "2", "-", "2", "2", "2", "2", "-", "2", "2", "2", "2", "-", "2", "2", "2", "2", "-", "2", "2", "2", "2", "2", "2", "2", "2", "2", "2", "2", "2">>
      [] a = "00000000-0000-4000-8000-0000000000" ->
            <<"0", "0", "0", "0", "0", "0", "0", "0", "-", "0", "0", "0", "0", "-",
              "4", "0", "0", "0", "-", "8", "0", "0", "0", "-",
              "0", "0", "0", "0", "0", "0", "0", "0", "0", "0">>
      [] a = "2024-01-01T00:00:00.00" ->
            <<"2", "0", "2", "4", "-", "0", "1", "-", "0", "1", "T", "0", "0", ":", "0", "0", ":", "0", "0", ".", "0", "0">>
      [] a = "Writing" -> <<"W", "r", "i", "t", "i", "n", "g">>
      [] a = "Admin" -> <<"A", "d", "m", "i", "n">>
      [] a = "foo" -> <<"f", "o", "o">>
      [] a = "Foo" -> <<"F", "o", "o">>
      [] a = "bar" -> <<"b", "a", "r">>
      [] a = "Draft" -> <<"D", "r", "a", "f", "t">>
      [] a = "spec" -> <<"s", "p", "e", "c">>
      [] a = "e1" -> <<"e", "1">>
      [] a = "e2" -> <<"e", "2">>
      [] a = "g1" -> <<"g", "1">>
      [] a = "g2" -> <<"g", "2">>
      [] a = "true" -> <<"t", "r", "u", "e">>
      [] a = "false" -> <<"f", "a", "l", "s", "e">>
      [] a = "undefined" -> <<"u", "n", "d", "e", "f", "i", "n", "e", "d">>
      [] a = "red" -> <<"r", "e", "d">>
      [] a = "date" -> <<"d", "a", "t", "e">>
      [] a = "start_time" -> <<"s", "t", "a", "r", "t", "_", "t", "i", "m", "e">>
      [] a = "end_time" -> <<"e", "n", "d", "_", "t", "i", "m", "e">>
      [] a = "duration_minutes" ->
            <<"d", "u", "r", "a", "t", "i", "o", "n", "_", "m", "i", "n", "u", "t", "e", "s">>
      [] a = "task_group_id" ->
            <<"t", "a", "s", "k", "_", "g", "r", "o", "u", "p", "_", "i", "d">>
      [] a = "task_group_name" ->
            <<"t", "a", "s", "k", "_", "g", "r", "o", "u", "p", "_", "n", "a", "m", "e">>
      [] a = "content" -> <<"c", "o", "n", "t", "e", "n", "t">>
      [] a = "created_at" -> <<"c", "r", "e", "a", "t", "e", "d", "_", "a", "t">>
      [] a = "updated_at" -> <<"u", "p", "d", "a", "t", "e", "d", "_", "a", "t">>
      [] a = "id" -> <<"i", "d">>
      [] a = "name" -> <<"n", "a", "m", "e">>
      [] a = "color" -> <<"c", "o", "l", "o", "r">>
      [] a = "is_active" -> <<"i", "s", "_", "a", "c", "t", "i", "v", "e">>
      [] OTHER -> <<a>>

RECURSIVE Chars(_)
\* A string spelled out, character by character.
Chars(s) == IF s = <<>> THEN <<>> ELSE Spelling(Head(s)) \o Chars(Tail(s))

Digits == <<"0", "1", "2", "3", "4", "5", "6", "7", "8", "9">>

IsDigit(c) == c \in {"0", "1", "2", "3", "4", "5", "6", "7", "8", "9"}

IsHexDigit(c) ==
    IsDigit(c) \/ c \in {"a", "b", "c", "d", "e", "f", "A", "B", "C", "D", "E", "F"}

\* The characters String.prototype.trim() removes, among those of the model.
IsSpace(c) == c \in {" ", "\n", "\r", "\t"}

\* s.startsWith(p, i - 1)
StartsWithAt(s, i, p) ==
    /\ i + Len(p) - 1 <= Len(s)
    /\ SubSeq(s, i, i + Len(p) - 1) = p

\* s.includes(p)
Includes(s, p) == \E i \in 1..(Len(s) + 1) : StartsWithAt(s, i, p)

RECURSIVE ReplaceFrom(_, _, _, _)
ReplaceFrom(s, i, from, to) ==
    IF i > Len(s) THEN <<>>
    ELSE IF StartsWithAt(s, i, from)
         THEN to \o ReplaceFrom(s, i + Len(from), from, to)
         ELSE <<s[i]>> \o ReplaceFrom(s, i + 1, from, to)

\* s.replace(/from/g, to): every match, left to right, without overlap.
ReplaceAll(s, from, to) == ReplaceFrom(s, 1, from, to)

\* The least element of a set of positions, 0 for the empty set:
\* Array.prototype.findIndex, counted from 1.
First(positions) ==
    IF positions = {} THEN 0 ELSE CHOOSE i \in positions : \A j \in positions : i <= j

\* s.split(sep) for a one-character separator: the pieces between the
\* occurrences of sep (at the positions at), in order.  (<<>> \o f, here and
\* below, is the array whose elements are the values of f, as a sequence
\* value.)
SplitAt(s, at) ==
    LET pos(k) == IF k = 0 THEN 0
                  ELSE IF k = Cardinality(at) + 1 THEN Len(s) + 1
                  ELSE CHOOSE p \in at : Cardinality({ q \in at : q < p }) = k - 1
    IN  <<>> \o [k \in 1..(Cardinality(at) + 1) |-> SubSeq(s, pos(k - 1) + 1, pos(k) - 1)]

Split(s, sep) == SplitAt(s, { i \in 1..Len(s) : s[i] = sep })

RECURSIVE TrimStart(_)
TrimStart(s) ==
    IF s # <<>> /\ IsSpace(Head(s)) THEN TrimStart(Tail(s)) ELSE s

RECURSIVE TrimEnd(_)
TrimEnd(s) ==
    IF s # <<>> /\ IsSpace(s[Len(s)]) THEN TrimEnd(SubSeq(s, 1, Len(s) - 1)) ELSE s

\* s.trim()
Trim(s) == TrimEnd(TrimStart(s))

RECURSIVE Join(_, _)
\* parts.join(sep)
Join(parts, sep) ==
    IF parts = <<>> THEN <<>>
    ELSE IF Len(parts) = 1 THEN parts[1]
    ELSE parts[1] \o sep \o Join(Tail(parts), sep)

IsNonBlank(line) == Trim(line) # <<>>

\* lines.filter((line) => line.trim())  and  .filter((line) => line.trim().length > 0)
SelectNonBlank(lines) == SelectSeq(lines, IsNonBlank)

RECURSIVE NatToString(_)
NatToString(n) ==
    IF n < 10 THEN <<Digits[n + 1]>>
    ELSE Append(NatToString(n \div 10), Digits[(n % 10) + 1])

\* Number.prototype.toString() of an integer.
NumberToString(n) == IF n < 0 THEN <<"-">> \o NatToString(0 - n) ELSE NatToString(n)

DigitValue(c) == CHOOSE d \in 0..9 : Digits[d + 1] = c

RECURSIVE ParseDigits(_, _)
ParseDigits(s, acc) ==
    IF s = <<>> \/ ~IsDigit(Head(s)) THEN acc
    ELSE ParseDigits(Tail(s), acc * 10 + DigitValue(Head(s)))

\* parseInt(s) of a string that starts with a digit, which is what the
\* duration_minutes pattern /^\d+$/ leaves: csvRowToTaskLogEntry validates
\* before it converts.
ParseInt(s) == ParseDigits(Chars(s), 0)

\* pattern.test(s) for the anchored, fixed-shape patterns of the rule set: a
\* shape is a sequence of "D" (\d), "H" ([0-9a-f] under the i flag) and
\* literal characters.
MatchesChars(c, shape) ==
    /\ Len(c) = Len(shape)
    /\ \A i \in 1..Len(shape) :
          CASE shape[i] = "D" -> IsDigit(c[i])
            [] shape[i] = "H" -> IsHexDigit(c[i])
            [] OTHER -> c[i] = shape[i]

MatchesShape(s, shape) == MatchesChars(Chars(s), shape)

\* /^\d+$/.test(s), s spelled out as c.
AllDigits(c) == c # <<>> /\ \A i \in 1..Len(c) : IsDigit(c[i])

\* new Date().toISOString() at clock reading t, below 10 ms.
toISOString(t) == <<"2024-01-01T00:00:00.00", Digits[t + 1], "Z">>

\* ------------------------------------------------------------------ schema
\* TASK_LOG_CSV_HEADERS
TASK_LOG_CSV_HEADERS ==
    << "date", "start_time", "end_time", "duration_minutes", "task_group_id",
       "task_group_name", "content", "created_at", "updated_at" >>

\* The header line ensureCSVFilesExist and importData write to task_logs.csv.
TaskLogsHeaderLine ==
    Join(<<>> \o [i \in 1..Len(TASK_LOG_CSV_HEADERS) |-> <<TASK_LOG_CSV_HEADERS[i]>>], <<",">>)

\* The header line written to task_groups.csv.
TaskGroupsHeaderLine ==
    <<"id", ",", "name", ",", "color", ",", "created_at", ",", "updated_at", ",", "is_active">>

DatePattern == <<"D", "D", "D", "D", "-", "D", "D", "-", "D", "D">>

IsoSecondsPattern ==
    <<"D", "D", "D", "D", "-", "D", "D", "-", "D", "D", "T",
      "D", "D", ":", "D", "D", ":", "D", "D", "Z">>

IsoMillisPattern ==
    <<"D", "D", "D", "D", "-", "D", "D", "-", "D", "D", "T",
      "D", "D", ":", "D", "D", ":", "D", "D", ".", "D", "D", "D", "Z">>

UuidPattern ==
    <<"H", "H", "H", "H", "H", "H", "H", "H", "-", "H", "H", "H", "H", "-",
      "H", "H", "H", "H", "-", "H", "H", "H", "H", "-",
      "H", "H", "H", "H", "H", "H", "H", "H", "H", "H", "H", "H">>

\* rule.pattern.test(value), and rule.validator(value), of the rule of a field
\* in TASK_LOG_CSV_VALIDATION_RULES.
RuleAccepts(field, value) ==
    CASE field = "date" -> MatchesShape(value, DatePattern)
      [] field \in {"start_time", "end_time"} ->
            \/ MatchesShape(value, <<"D", ":", "D", "D">>)
            \/ MatchesShape(value, <<"D", "D", ":", "D", "D">>)
      [] field = "duration_minutes" -> AllDigits(Chars(value))
      [] field = "task_group_id" -> MatchesShape(value, UuidPattern)
      [] field \in {"task_group_name", "content"} -> Len(value) > 0
      [] field \in {"created_at", "updated_at"} ->
            \/ MatchesShape(value, IsoSecondsPattern)
            \/ MatchesShape(value, IsoMillisPattern)

\* One pass of the loop body of validateTaskLogCsvRow: every rule is required.
RuleFails(field, value) ==
    \/ value = <<>>
    \/ Trim(value) = <<>>
    \/ ~RuleAccepts(field, value)

\* ------------------------------------------------------------------- codec
\* The JavaScript value undefined where a string is expected: a one-element
\* sequence whose element is no character, so it equals no string.
Undefined == <<"<undefined>">>

\* value || ""
OrEmpty(value) == IF value = Undefined THEN <<>> ELSE value

\* `${value}` inside a template literal.
Interpolate(value) ==
    IF value = Undefined THEN <<"undefined">> ELSE value

\* CsvParser.escapeCsvValue
escapeCsvValue(value) ==
    ReplaceAll(ReplaceAll(ReplaceAll(value, <<"\"">>, <<"\"", "\"">>),
                          <<"\n">>, <<"\\", "n">>),
               <<"\r">>, <<"\\", "r">>)

\* An unescapeCsvValue that leaves doubled quotes as they are.
unescapeCsvValueKeepingQuotes(value) ==
    ReplaceAll(ReplaceAll(value, <<"\\", "n">>, <<"\n">>), <<"\\", "r">>, <<"\r">>)

\* CsvParser.unescapeCsvValue
unescapeCsvValue(value) ==
    ReplaceAll(ReplaceAll(ReplaceAll(value, <<"\"", "\"">>, <<"\"">>),
                          <<"\\", "n">>, <<"\n">>),
               <<"\\", "r">>, <<"\r">>)

\* CsvParser.formatCsvField, with the delimiter "," and the quote '"' the
\* constructor defaults to.
formatCsvField(value) ==
    IF \/ Includes(value, <<",">>)
       \/ Includes(value, <<"\"">>)
       \/ Includes(value, <<"\n">>)
       \/ Includes(value, <<"\r">>)
    THEN <<"\"">> \o ReplaceAll(value, <<"\"">>, <<"\"", "\"">>) \o <<"\"">>
    ELSE value

\* CsvParser.taskLogEntryToCsvRow
taskLogEntryToCsvRow(entry) ==
    [ date |-> entry.date,
      start_time |-> entry.startTime,
      end_time |-> entry.endTime,
      duration_minutes |-> NumberToString(entry.duration),
      task_group_id |-> entry.taskGroupId,
      task_group_name |-> entry.taskGroupName,
      content |-> escapeCsvValue(entry.content),
      created_at |-> entry.createdAt,
      updated_at |-> entry.updatedAt ]

\* CsvParser.generateCsvContent (hasHeader is true)
generateCsvContent(rows, headers) ==
    LET headerLine ==
            Join(<<>> \o [i \in 1..Len(headers) |-> formatCsvField(<<headers[i]>>)], <<",">>)
        dataLine(row) ==
            Join(<<>> \o [i \in 1..Len(headers) |-> formatCsvField(OrEmpty(row[headers[i]]))], <<",">>)
        lines == <<headerLine>> \o [k \in 1..Len(rows) |-> dataLine(rows[k])]
    IN  Join(lines, <<"\n">>) \o <<"\n">>

\* CsvParser.writeTaskLogsCsv: the content written to the file.
writeTaskLogsCsv(entries) ==
    generateCsvContent(<<>> \o [k \in 1..Len(entries) |-> taskLogEntryToCsvRow(entries[k])],
                       TASK_LOG_CSV_HEADERS)

RECURSIVE parseCsvLineFrom(_, _, _, _, _)
parseCsvLineFrom(line, i, current, inQuotes, result) ==
    IF i > Len(line) THEN Append(result, current)
    ELSE LET char == line[i]
             nextIsQuote == i + 1 <= Len(line) /\ line[i + 1] = "\""
         IN  IF char = "\""
             THEN IF inQuotes /\ nextIsQuote
                  THEN parseCsvLineFrom(line, i + 2, Append(current, "\""), inQuotes, result)
                  ELSE parseCsvLineFrom(line, i + 1, current, ~inQuotes, result)
             ELSE IF char = "," /\ ~inQuotes
                  THEN parseCsvLineFrom(line, i + 1, <<>>, inQuotes, Append(result, current))
                  ELSE parseCsvLineFrom(line, i + 1, Append(current, char), inQuotes, result)

\* CsvParser.parseCsvLine
parseCsvLine(line) == parseCsvLineFrom(line, 1, <<>>, FALSE, <<>>)

\* CsvParser.parseCsvContent: the non-blank physical lines, each trimmed and
\* tokenized on its own.
parseCsvLines(lines) == <<>> \o [i \in 1..Len(lines) |-> parseCsvLine(Trim(lines[i]))]

parseCsvContent(content) == parseCsvLines(SelectNonBlank(Split(content, "\n")))

\* CsvParser.arrayToCsvRow for TASK_LOG_CSV_HEADERS: array[index] || "".
arrayToCsvRow(array) ==
    LET at(i) == IF i <= Len(array) THEN array[i] ELSE <<>>
    IN  [ date |-> at(1), start_time |-> at(2), end_time |-> at(3),
          duration_minutes |-> at(4), task_group_id |-> at(5),
          task_group_name |-> at(6), content |-> at(7),
          created_at |-> at(8), updated_at |-> at(9) ]

\* A validateTaskLogCsvRow that reports the last rule the row fails.
validateTaskLogCsvRowLast(row) ==
    LET failing == { i \in 1..Len(TASK_LOG_CSV_HEADERS) :
                        RuleFails(TASK_LOG_CSV_HEADERS[i], row[TASK_LOG_CSV_HEADERS[i]]) }
    IN  IF failing = {} THEN 0 ELSE CHOOSE i \in failing : \A j \in failing : j <= i

\* CsvParser.validateTaskLogCsvRow: the position in the rule set of the first
\* rule the row fails, 0 when it passes them all.
validateTaskLogCsvRow(row) ==
    First({ i \in 1..Len(TASK_LOG_CSV_HEADERS) :
                RuleFails(TASK_LOG_CSV_HEADERS[i], row[TASK_LOG_CSV_HEADERS[i]]) })

\* A csvRowToTaskLogEntry that takes the identifier from the row.
csvRowToTaskLogEntryKeyed(row, uuid) ==
    [ id |-> row.created_at,
      date |-> row.date,
      startTime |-> row.start_time,
      endTime |-> row.end_time,
      duration |-> ParseInt(row.duration_minutes),
      taskGroupId |-> row.task_group_id,
      taskGroupName |-> row.task_group_name,
      content |-> unescapeCsvValue(row.content),
      createdAt |-> row.created_at,
      updatedAt |-> row.updated_at ]

\* CsvParser.csvRowToTaskLogEntry of a row that passed validation; uuid is
\* what uuidv4() returns.
csvRowToTaskLogEntry(row, uuid) ==
    [ id |-> uuid,
      date |-> row.date,
      startTime |-> row.start_time,
      endTime |-> row.end_time,
      duration |-> ParseInt(row.duration_minutes),
      taskGroupId |-> row.task_group_id,
      taskGroupName |-> row.task_group_name,
      content |-> unescapeCsvValue(row.content),
      createdAt |-> row.created_at,
      updatedAt |-> row.updated_at ]

\* The k-th identifier uuidv4() returns in a run.
Uuid(k) ==
    <<"00000000-0000-4000-8000-0000000000", Digits[(k \div 10) + 1], Digits[(k % 10) + 1]>>

\* rows.slice(1), each through arrayToCsvRow.
DataRows(rows) == <<>> \o [k \in 1..(Len(rows) - 1) |-> arrayToCsvRow(rows[k + 1])]

\* The CsvParseError csvRowToTaskLogEntry throws for the data row at position
\* index, whose first failing rule is the one at position rule.
RowRejected(csvRow, rule, index, minted) ==
    [ ok |-> FALSE,
      entries |-> <<>>,
      minted |-> minted + index - 1,
      row |-> index + 1,
      column |-> TASK_LOG_CSV_HEADERS[rule],
      originalData |-> csvRow[TASK_LOG_CSV_HEADERS[rule]] ]

\* dataRows.map(...): firstBad is the position of the first row that fails
\* validation, 0 if there is none.
MapDataRows(dataRows, firstBad, minted) ==
    IF firstBad = 0
    THEN [ ok |-> TRUE,
           entries |-> <<>> \o [k \in 1..Len(dataRows) |->
                           csvRowToTaskLogEntry(dataRows[k], Uuid(minted + k))],
           minted |-> minted + Len(dataRows),
           row |-> 0, column |-> "", originalData |-> <<>> ]
    ELSE RowRejected(dataRows[firstBad], validateTaskLogCsvRow(dataRows[firstBad]),
                     firstBad, minted)

ReadDataRows(dataRows, minted) ==
    MapDataRows(dataRows,
                First({ k \in 1..Len(dataRows) : validateTaskLogCsvRow(dataRows[k]) # 0 }),
                minted)

\* CsvParser.readTaskLogsCsv on the content of an existing file, uuidv4()
\* having returned minted identifiers before.  ok: the entries; else the
\* CsvParseError of the first row that fails validation (rows before it have
\* been converted, each with a new identifier).
readTaskLogsCsv(content, minted) == ReadDataRows(DataRows(parseCsvContent(content)), minted)

\* CsvParser.taskGroupToCsvRow
taskGroupToCsvRow(group) ==
    [ id |-> group.id,
      name |-> escapeCsvValue(group.name),
      color |-> OrEmpty(group.color),
      created_at |-> group.createdAt,
      updated_at |-> group.updatedAt,
      is_active |-> IF group.isActive THEN <<"true">> ELSE <<"false">> ]

\* CsvParser.csvRowToTaskGroup
csvRowToTaskGroup(row) ==
    [ id |-> row.id,
      name |-> unescapeCsvValue(row.name),
      color |-> IF row.color = <<>> THEN Undefined ELSE row.color,   \* row.color || undefined
      createdAt |-> row.created_at,
      updatedAt |-> row.updated_at,
      isActive |-> row.is_active = <<"true">> ]

\* ------------------------------------------------------------------- store
\* {...base, ...updates}
Merge(base, updates) ==
    updates @@ base

\* value is falsy: undefined or the empty string.
IsFalsy(value) == value = <<>> \/ value = Undefined

\* The content ensureCSVFilesExist writes to a file that does not exist, and
\* importData to a file it truncates.
HeaderOnly(headerLine) == headerLine \o <<"\n">>

\* ensureCSVFilesExist, for one file: fs.access, and fs.writeFile if it fails.
ensureCSVFileExists(file, headerLine) ==
    IF file.exists THEN file ELSE [exists |-> TRUE, content |-> HeaderOnly(headerLine)]

\* entries.findIndex((e) => e.id === id), counted from 1; 0 for -1.
IndexOfId(entries, id) == First({ k \in 1..Len(entries) : entries[k].id = id })

\* { ...entry, id: entry.id || uuidv4(), createdAt: entry.createdAt || now,
\*   updatedAt: now }
NewEntry(entry, minted, t) ==
    [entry EXCEPT
        !.id = IF IsFalsy(entry.id) THEN Uuid(minted + 1) ELSE entry.id,
        !.createdAt = IF IsFalsy(entry.createdAt) THEN toISOString(t) ELSE entry.createdAt,
        !.updatedAt = toISOString(t)]

\* The second half of saveTaskLog: existingEntries are the entries read, and
\* existingIndex is what findIndex returned.
SaveInto(existingEntries, existingIndex, entry, minted, t) ==
    IF existingIndex > 0
    THEN [ content |-> writeTaskLogsCsv(
                          [existingEntries EXCEPT
                              ![existingIndex] = [entry EXCEPT !.updatedAt = toISOString(t)]]),
           minted |-> minted,
           outcome |-> "ok" ]
    ELSE [ content |-> writeTaskLogsCsv(Append(existingEntries, NewEntry(entry, minted, t))),
           minted |-> IF IsFalsy(entry.id) THEN minted + 1 ELSE minted,
           outcome |-> "ok" ]

\* saveTaskLog once readTaskLogsCsv has returned or thrown (read).
SaveAfterRead(content, read, entry, t) ==
    IF ~read.ok
    THEN [content |-> content, minted |-> read.minted, outcome |-> "VALIDATION_ERROR"]
    ELSE SaveInto(read.entries, IndexOfId(read.entries, entry.id), entry, read.minted, t)

\* saveTaskLog after initialize(): the content of task_logs.csv before, the
\* entry, the number of identifiers minted so far and the clock reading.
saveTaskLog(content, entry, minted, t) ==
    SaveAfterRead(content, readTaskLogsCsv(content, minted), entry, t)

UpdateAt(content, existingEntries, entryIndex, updates, minted, t) ==
    IF entryIndex = 0
    THEN [content |-> content, minted |-> minted, outcome |-> "NOT_FOUND"]
    ELSE [ content |-> writeTaskLogsCsv(
                          [existingEntries EXCEPT
                              ![entryIndex] = [Merge(existingEntries[entryIndex], updates)
                                                  EXCEPT !.updatedAt = toISOString(t)]]),
           minted |-> minted,
           outcome |-> "ok" ]

UpdateAfterRead(content, read, id, updates, t) ==
    IF ~read.ok
    THEN [content |-> content, minted |-> read.minted, outcome |-> "UNKNOWN"]
    ELSE UpdateAt(content, read.entries, IndexOfId(read.entries, id), updates, read.minted, t)

\* updateTaskLog after initialize().
updateTaskLog(content, id, updates, minted, t) ==
    UpdateAfterRead(content, readTaskLogsCsv(content, minted), id, updates, t)

\* existingEntries.filter((e) => e.id !== id)
EntriesWithout(entries, id) ==
    LET keep(e) == e.id # id IN SelectSeq(entries, keep)

DeleteFrom(content, existingEntries, filteredEntries, minted) ==
    IF Len(filteredEntries) = Len(existingEntries)
    THEN [content |-> content, minted |-> minted, outcome |-> "NOT_FOUND"]
    ELSE [content |-> writeTaskLogsCsv(filteredEntries), minted |-> minted, outcome |-> "ok"]

DeleteAfterRead(content, read, id) ==
    IF ~read.ok
    THEN [content |-> content, minted |-> read.minted, outcome |-> "UNKNOWN"]
    ELSE DeleteFrom(content, read.entries, EntriesWithout(read.entries, id), read.minted)

\* deleteTaskLog after initialize().
deleteTaskLog(content, id, minted) ==
    DeleteAfterRead(content, readTaskLogsCsv(content, minted), id)

\* The line saveTaskGroup and deleteTaskGroup build from a CSV row:
\* `${csvRow.id},${csvRow.name},${csvRow.color},${csvRow.created_at},...`.
TaskGroupLine(csvRow) ==
    Join(<< Interpolate(csvRow.id), Interpolate(csvRow.name), Interpolate(csvRow.color),
            Interpolate(csvRow.created_at), Interpolate(csvRow.updated_at),
            Interpolate(csvRow.is_active) >>, <<",">>)

\* lines.slice(1).findIndex((line) => line.split(",")[0] === id), from 1.
IndexOfLine(dataLines, id) ==
    First({ k \in 1..Len(dataLines) : Split(dataLines[k], ",")[1] = id })

\* The second half of saveTaskGroup: replace the line at existingIndex, or
\* append, and write header and lines back.
SaveLines(header, dataLines, existingIndex, newLine) ==
    [ content |-> Join(<<header>> \o (IF existingIndex > 0
                                      THEN [dataLines EXCEPT ![existingIndex] = newLine]
                                      ELSE Append(dataLines, newLine)),
                       <<"\n">>) \o <<"\n">>,
      outcome |-> "ok" ]

SaveGroupInto(lines, group) ==
    SaveLines(IF lines = <<>> THEN <<>> ELSE lines[1],
              SubSeq(lines, 2, Len(lines)),
              IndexOfLine(SubSeq(lines, 2, Len(lines)), group.id),
              TaskGroupLine(taskGroupToCsvRow(group)))

\* saveTaskGroup after initialize(): the content of task_groups.csv before and
\* the group.  escapeCsvValue(group.name) throws on a missing name.
saveTaskGroup(content, group) ==
    IF group.name = Undefined
    THEN [content |-> content, outcome |-> "UNKNOWN"]
    ELSE SaveGroupInto(SelectNonBlank(Split(content, "\n")), group)

TaskGroupRowOfFields(fields) ==
    LET at(i) == IF i <= Len(fields) THEN fields[i] ELSE Undefined
    IN  [ id |-> at(1), name |-> at(2), color |-> at(3),
          created_at |-> at(4), updated_at |-> at(5), is_active |-> at(6) ]

\* const [id, name, color, created_at, updated_at, is_active] = line.split(",")
TaskGroupRowOfLine(line) == TaskGroupRowOfFields(Split(line, ","))

GroupsOfRows(rows) ==
    IF \E k \in 1..Len(rows) : rows[k].name = Undefined
    THEN [groups |-> <<>>, outcome |-> "UNKNOWN"]
    ELSE [groups |-> <<>> \o [k \in 1..Len(rows) |-> csvRowToTaskGroup(rows[k])],
          outcome |-> "ok"]

GroupsOfLines(dataLines) ==
    GroupsOfRows(<<>> \o [k \in 1..Len(dataLines) |-> TaskGroupRowOfLine(dataLines[k])])

\* The data lines of task_groups.csv: lines.slice(1) of the non-blank lines.
GroupDataLines(lines) == SubSeq(lines, 2, Len(lines))

\* getTaskGroups after initialize(): unescapeCsvValue(row.name) throws on a
\* line without a second field.
getTaskGroups(content) == GroupsOfLines(GroupDataLines(SelectNonBlank(Split(content, "\n"))))

UpdateGroupAt(content, groups, groupIndex, updates, t) ==
    IF groupIndex = 0 THEN [content |-> content, outcome |-> "NOT_FOUND"]
    ELSE saveTaskGroup(content,
                       [Merge(groups[groupIndex], updates) EXCEPT !.updatedAt = toISOString(t)])

UpdateGroupAfterGet(content, got, id, updates, t) ==
    IF got.outcome # "ok" THEN [content |-> content, outcome |-> got.outcome]
    ELSE UpdateGroupAt(content, got.groups, IndexOfId(got.groups, id), updates, t)

\* updateTaskGroup after initialize(): getTaskGroups, then saveTaskGroup of
\* the merged group.
updateTaskGroup(content, id, updates, t) ==
    UpdateGroupAfterGet(content, getTaskGroups(content), id, updates, t)

\* groups.filter((g) => g.id !== id)
GroupsWithout(groups, id) ==
    LET keep(g) == g.id # id IN SelectSeq(groups, keep)

\* The second half of deleteTaskGroup: the file is rebuilt from the groups
\* kept, under a header literal that ends in a newline.
DeleteGroupFrom(content, groups, filteredGroups) ==
    IF Len(filteredGroups) = Len(groups)
    THEN [content |-> content, outcome |-> "NOT_FOUND"]
    ELSE [ content |-> HeaderOnly(TaskGroupsHeaderLine)
                          \o Join(<<>> \o [k \in 1..Len(filteredGroups) |->
                                      TaskGroupLine(taskGroupToCsvRow(filteredGroups[k]))],
                                  <<"\n">>)
                          \o <<"\n">>,
           outcome |-> "ok" ]

DeleteGroupAfterGet(content, got, id) ==
    IF got.outcome # "ok" THEN [content |-> content, outcome |-> got.outcome]
    ELSE DeleteGroupFrom(content, got.groups, GroupsWithout(got.groups, id))

\* deleteTaskGroup after initialize().
deleteTaskGroup(content, id) == DeleteGroupAfterGet(content, getTaskGroups(content), id)

\* ----------------------------------------------------------------- queries
\* The characters of dates and times in the order of their code points.
Collation == <<"-", "0", "1", "2", "3", "4", "5", "6", "7", "8", "9", ":">>

CharRank(c) == First({ i \in 1..Len(Collation) : Collation[i] = c })

\* a < b for two VARCHAR values, spelled out: SQL compares text character by
\* character.
TextLess(a, b) ==
    \E i \in 1..Len(b) :
        /\ i <= Len(a) + 1
        /\ SubSeq(a, 1, i - 1) = SubSeq(b, 1, i - 1)
        /\ (i = Len(a) + 1 \/ CharRank(a[i]) < CharRank(b[i]))

UpperCase == <<"A", "B", "C", "D", "E", "F", "G", "H", "I", "J", "K", "L", "M",
               "N", "O", "P", "Q", "R", "S", "T", "U", "V", "W", "X", "Y", "Z">>

LowerCase == <<"a", "b", "c", "d", "e", "f", "g", "h", "i", "j", "k", "l", "m",
               "n", "o", "p", "q", "r", "s", "t", "u", "v", "w", "x", "y", "z">>

ToLowerChar(c) ==
    IF \E i \in 1..Len(UpperCase) : UpperCase[i] = c
    THEN LowerCase[CHOOSE i \in 1..Len(UpperCase) : UpperCase[i] = c]
    ELSE c

\* The characters of a string, letters in lower case.
ToLowerChars(c) == <<>> \o [i \in 1..Len(c) |-> ToLowerChar(c[i])]

\* value LIKE '%query%' and value ILIKE '%query%', for a query without the
\* wildcards % and _ and without a quote.
Like(value, query, caseSensitive) ==
    IF caseSensitive
    THEN Includes(Chars(value), Chars(query))
    ELSE Includes(ToLowerChars(Chars(value)), ToLowerChars(Chars(query)))

\* The rows of the view task_logs, SELECT * FROM read_csv_auto(taskLogsCsvPath),
\* over a file the store has written: one row for each data line, every
\* column as the text in the file.
ViewRows(content) == DataRows(parseCsvContent(content))

\* date BETWEEN 'startDate' AND 'endDate'
DateBetween(row, startDate, endDate) ==
    /\ ~TextLess(Chars(row.date), Chars(startDate))
    /\ ~TextLess(Chars(endDate), Chars(row.date))

\* start_time >= 'startTime' AND end_time <= 'endTime'
TimeWithin(row, startTime, endTime) ==
    /\ ~TextLess(Chars(row.start_time), Chars(startTime))
    /\ ~TextLess(Chars(endTime), Chars(row.end_time))

\* ORDER BY date DESC, start_time DESC places a before b, or leaves their
\* order open.
MayPrecede(a, b) ==
    \/ TextLess(Chars(b.date), Chars(a.date))
    \/ /\ Chars(a.date) = Chars(b.date)
       /\ ~TextLess(Chars(a.start_time), Chars(b.start_time))

\* rows in the order of the positions order.
Arranged(rows, order) == <<>> \o [i \in 1..Len(rows) |-> rows[order[i]]]

\* The orders in which ORDER BY date DESC, start_time DESC may return rows.
OrderBy(rows) ==
    { Arranged(rows, order) : order \in
        { p \in Permutations(1..Len(rows)) :
            \A i, j \in 1..Len(rows) : i < j => MayPrecede(rows[p[i]], rows[p[j]]) } }

\* What a query operation hands to its caller once its catch clause has run:
\* every failure leaves as a DataStoreError of kind UNKNOWN.
QueryOutcome(read) ==
    [ outcome |-> IF read.ok THEN "ok" ELSE "UNKNOWN",
      entries |-> read.entries,
      minted |-> read.minted ]

\* executeCsvQuery: db.all, then csvRowToTaskLogEntry on each row returned;
\* its rejection as the query operation that called it throws it on.
executeCsvQuery(rows, minted) == QueryOutcome(ReadDataRows(rows, minted))

\* db.all rejects the statement: it names a column the view does not have, or
\* it is not well formed.
Rejected(columns, malformed) ==
    malformed \/ \E c \in columns : \A i \in 1..Len(TASK_LOG_CSV_HEADERS) : TASK_LOG_CSV_HEADERS[i] # c

\* SELECT * FROM task_logs WHERE ... ORDER BY date DESC, start_time DESC
\* through executeCsvQuery: the outcomes the statement can have, columns being
\* the columns its WHERE clause names and selected the rows of the view that
\* satisfy the clause.
SelectFromTaskLogs(selected, columns, malformed, minted) ==
    IF Rejected(columns, malformed)
    THEN { [outcome |-> "UNKNOWN", entries |-> <<>>, minted |-> minted] }
    ELSE { executeCsvQuery(ordered, minted) : ordered \in OrderBy(selected) }

\* An optional argument that is not passed.
NotGiven == [given |-> FALSE]

\* getTaskLogs after initialize(): the outcomes it can have.
getTaskLogs(content, filter, minted) ==
    IF ~filter.given
    THEN { QueryOutcome(readTaskLogsCsv(content, minted)) }
    ELSE SelectFromTaskLogs(
             SelectSeq(ViewRows(content),
                       LAMBDA row : DateBetween(row, filter.startDate, filter.endDate)),
             {"date"}, FALSE, minted)

\* field === "taskGroupName" ? "task_group_name" : field
ColumnName(field) == IF field = "taskGroupName" THEN "task_group_name" ELSE field

\* The search condition: the conditions of the columns, joined by OR.
AnyColumnLike(row, columns, query, caseSensitive) ==
    \E i \in 1..Len(columns) : Like(row[columns[i]], query, caseSensitive)

\* The elements of a sequence.
Range(seq) == { seq[i] : i \in 1..Len(seq) }

SearchIn(rows, columns, searchFilter, minted) ==
    SelectFromTaskLogs(
        SelectSeq(rows, LAMBDA row : AnyColumnLike(row, columns, searchFilter.query,
                                                   searchFilter.caseSensitive)),
        Range(columns), columns = <<>>, minted)

\* searchTaskLogs after initialize(): the outcomes it can have.
searchTaskLogs(content, searchFilter, minted) ==
    SearchIn(ViewRows(content),
             IF searchFilter.fieldsGiven
             THEN <<>> \o [i \in 1..Len(searchFilter.fields) |-> ColumnName(searchFilter.fields[i])]
             ELSE <<"content", "task_group_name">>,
             searchFilter, minted)

\* getFilteredTaskLogs pushes the time condition.
TimeApplies(timeRange) ==
    /\ timeRange.given
    /\ timeRange.type = "custom"
    /\ ~IsFalsy(timeRange.startTime)
    /\ ~IsFalsy(timeRange.endTime)

\* getFilteredTaskLogs pushes the task-group condition.
GroupApplies(taskGroup) ==
    /\ taskGroup.given
    /\ taskGroup.type # "all"
    /\ taskGroup.idsGiven

\* filters.search.fields || ["content", "task_group_name"]: the fields are the
\* column names of the statement as they stand.
FilteredSearchColumns(search) ==
    IF search.fieldsGiven THEN search.fields ELSE <<"content", "task_group_name">>

\* The columns the WHERE clause of getFilteredTaskLogs names.
FilteredColumns(filters) ==
    (IF filters.dateRange.given THEN {"date"} ELSE {})
        \cup (IF TimeApplies(filters.timeRange) THEN {"start_time", "end_time"} ELSE {})
        \cup (IF GroupApplies(filters.taskGroup) THEN {"task_group_id"} ELSE {})
        \cup (IF filters.search.given THEN Range(FilteredSearchColumns(filters.search)) ELSE {})

\* task_group_id IN () and an empty search condition () do not parse.
FilteredMalformed(filters) ==
    \/ GroupApplies(filters.taskGroup) /\ filters.taskGroup.selectedGroupIds = <<>>
    \/ filters.search.given /\ FilteredSearchColumns(filters.search) = <<>>

\* conditions.join(" AND ") on a row.
FilteredWhere(row, filters) ==
    /\ filters.dateRange.given =>
          DateBetween(row, filters.dateRange.startDate, filters.dateRange.endDate)
    /\ TimeApplies(filters.timeRange) =>
          TimeWithin(row, filters.timeRange.startTime, filters.timeRange.endTime)
    /\ GroupApplies(filters.taskGroup) =>
          \E i \in 1..Len(filters.taskGroup.selectedGroupIds) :
              Chars(row.task_group_id) = Chars(filters.taskGroup.selectedGroupIds[i])
    /\ filters.search.given =>
          AnyColumnLike(row, FilteredSearchColumns(filters.search), filters.search.query,
                        filters.search.caseSensitive)

\* getFilteredTaskLogs after initialize(): the outcomes it can have.
getFilteredTaskLogs(content, filters, minted) ==
    SelectFromTaskLogs(
        SelectSeq(ViewRows(content), LAMBDA row : FilteredWhere(row, filters)),
        FilteredColumns(filters), FilteredMalformed(filters), minted)

\* ------------------------------------------------------------------- state
VARIABLES
    taskLogsCsv,      \* the file at taskLogsCsvPath: [exists, content]
    taskGroupsCsv,    \* the file at taskGroupsCsvPath: [exists, content]
    isInitialized,    \* DuckDBStore.isInitialized
    clock,            \* what new Date() reads
    uuidCount,        \* how many identifiers uuidv4() has returned
    savedIds,         \* the ids saveTaskLog succeeded under, less those deleteTaskLog removed
    last,             \* the last call: operation, arguments, how it ended, what it returned
    calls,            \* the saves in flight, one for each caller: where each has got to
    written,          \* the callers whose save has rewritten its file, in that order
    initRun,          \* what the initialize() of the last call did: files written, views set up
    cache,            \* the Cache of cache.service.ts: what each key holds
    dailyNote         \* the entries the drift logger has appended to the daily note

vars ==
    <<taskLogsCsv, taskGroupsCsv, isInitialized, clock, uuidCount, savedIds, last,
      calls, written, initRun, cache, dailyNote>>

\* The state of the drift logger command, which the data store leaves alone.
driftVars == <<cache, dailyNote>>

\* A key of the cache that holds nothing.
NoEntry == [has |-> FALSE, value |-> <<>>]

\* The keys of the cache: the end time of the last drift log, the task groups,
\* the id of the selected task group, and the notes cached under vault.name.
CacheKeys ==
    { "drift_logger_last_end_time", "drift_logger_task_groups",
      "drift_logger_selected_task_group", "vault" }

\* new Cache(): no key holds anything.
NoCache == [key \in CacheKeys |-> NoEntry]

\* ------------------------------------------------------------------ inputs
G1 == <<"11111111-1111-1111-1111-111111111111">>

\* A well-formed entry; the store is left to set createdAt.
EntryFoo ==
    [ id |-> <<"e1">>, date |-> <<"2024-01-05">>, startTime |-> <<"09:00">>,
      endTime |-> <<"09:30">>, duration |-> 30, taskGroupId |-> G1,
      taskGroupName |-> <<"Writing">>, content |-> <<"foo">>,
      createdAt |-> <<>>, updatedAt |-> <<>> ]

\* The entry of the end-to-end scenario: its taskGroupId is the group's id, "g1".
EntryDraft ==
    [ id |-> <<"e2">>, date |-> <<"2024-01-05">>, startTime |-> <<"09:00">>,
      endTime |-> <<"09:30">>, duration |-> 30, taskGroupId |-> <<"g1">>,
      taskGroupName |-> <<"Writing">>, content |-> <<"Draft", " ", "spec">>,
      createdAt |-> <<>>, updatedAt |-> <<>> ]

LogSamples == {EntryFoo, EntryDraft}

LogUpdates == {[content |-> <<"bar">>]}

\* The identifiers a caller passes: the ones it saved entries under, and the
\* latest one uuidv4() returned.
LogIds == {<<"e1">>, <<"e2">>} \cup (IF uuidCount > 0 THEN {Uuid(uuidCount)} ELSE {})

GroupWriting ==
    [ id |-> <<"g1">>, name |-> <<"Writing">>, color |-> Undefined,
      createdAt |-> toISOString(0), updatedAt |-> toISOString(0), isActive |-> TRUE ]

GroupAdmin ==
    [ id |-> <<"g1">>, name |-> <<"Admin">>, color |-> <<"red">>,
      createdAt |-> toISOString(0), updatedAt |-> toISOString(0), isActive |-> FALSE ]

\* A name with a comma in it.
GroupComma ==
    [ id |-> <<"g2">>, name |-> <<"Writing", ",", " ", "foo">>, color |-> Undefined,
      createdAt |-> toISOString(0), updatedAt |-> toISOString(0), isActive |-> TRUE ]

GroupSamples == {GroupWriting, GroupAdmin, GroupComma}

GroupUpdates == {[name |-> <<"Admin">>]}

GroupIds == {<<"g1">>, <<"g2">>}

\* ----------------------------------------------------------------- actions
NoFile == [exists |-> FALSE, content |-> <<>>]

\* The callers that may have a save in flight at the same time.
Callers == {"a", "b"}

\* No error: the details of a DataStoreError constructed without any.
NoError == [class |-> "undefined"]

\* A mutation whose try block re-creates the views before it rewrites the file.
MutationStepsRefreshingFirst == <<"setupDuckDBTables", "writeFile">>

\* The end of the try block of each mutation: the file is rewritten, then
\* await this.setupDuckDBTables().
MutationSteps == <<"writeFile", "setupDuckDBTables">>

\* A caller with no call in flight.  pending is the content its call is about
\* to write, readAfter the callers that had rewritten the file when it read,
\* effects the steps the call has taken since its read, answer what it
\* returned, error what it threw and cause the lower-level error under that.
Idle == [pc |-> "idle", op |-> "none", arg |-> <<>>, pending |-> <<>>, readAfter |-> {},
         outcome |-> "none", effects |-> <<>>, answer |-> <<>>,
         error |-> NoError, cause |-> NoError]

\* No call has been made yet.
NoCall == [op |-> "none", id |-> <<>>, arg |-> <<>>, outcome |-> "none", returned |-> <<>>]

\* initialize() has not been called.
NoInit == [wrote |-> {}, views |-> 0]

Init ==
    /\ taskLogsCsv = NoFile
    /\ taskGroupsCsv = NoFile
    /\ isInitialized = FALSE
    /\ clock = 0
    /\ uuidCount = 0
    /\ savedIds = {}
    /\ last = NoCall
    /\ calls = [p \in Callers |-> Idle]
    /\ written = <<>>
    /\ initRun = NoInit
    /\ cache = NoCache
    /\ dailyNote = <<>>

\* An initialize() without its guard: it sets the views up on every call.
initializeUnguarded ==
    [ wrote |-> (IF taskLogsCsv.exists THEN {} ELSE {"task_logs.csv"})
                    \cup (IF taskGroupsCsv.exists THEN {} ELSE {"task_groups.csv"}),
      views |-> 1 ]

\* initialize(): the files ensureCSVFilesExist writes and the number of times
\* setupDuckDBTables runs; nothing of either once isInitialized is set.
initialize ==
    IF isInitialized THEN [wrote |-> {}, views |-> 0]
    ELSE [ wrote |-> (IF taskLogsCsv.exists THEN {} ELSE {"task_logs.csv"})
                        \cup (IF taskGroupsCsv.exists THEN {} ELSE {"task_groups.csv"}),
           views |-> 1 ]

\* initialize(): what the two files are once it has returned.
InitializedLogs ==
    IF isInitialized THEN taskLogsCsv
    ELSE ensureCSVFileExists(taskLogsCsv, TaskLogsHeaderLine)

InitializedGroups ==
    IF isInitialized THEN taskGroupsCsv
    ELSE ensureCSVFileExists(taskGroupsCsv, TaskGroupsHeaderLine)

\* The data lines of a file: its non-blank lines but the first.
DataLines(content) == GroupDataLines(SelectNonBlank(Split(content, "\n")))

\* A call on the task-log collection has run.
LogCallDone(op, id, arg, r) ==
    /\ r.minted <= MaxUuid
    /\ taskLogsCsv' = [exists |-> TRUE, content |-> r.content]
    /\ taskGroupsCsv' = InitializedGroups
    /\ isInitialized' = TRUE
    /\ uuidCount' = r.minted
    /\ savedIds' = CASE op = "saveTaskLog" /\ r.outcome = "ok" -> savedIds \cup {id}
                      [] op = "deleteTaskLog" /\ r.outcome = "ok" -> savedIds \ {id}
                      [] OTHER -> savedIds
    /\ last' = [op |-> op, id |-> id, arg |-> arg, outcome |-> r.outcome, returned |-> <<>>]
    /\ UNCHANGED driftVars
    /\ initRun' = initialize
    /\ UNCHANGED <<clock, calls, written>>

\* A store whose deleteTaskGroup cascades: the entries of the group (the data
\* lines whose task_group_id is id) go with it.
GroupCallDoneCascading(op, id, arg, r) ==
    /\ taskLogsCsv' =
          IF op = "deleteTaskGroup" /\ r.outcome = "ok"
          THEN LET refers(line) == Len(parseCsvLine(line)) >= 5 /\ parseCsvLine(line)[5] = id
                   keep(line) == ~refers(line)
               IN  [ exists |-> TRUE,
                     content |-> Join(<<TaskLogsHeaderLine>>
                                         \o SelectSeq(DataLines(InitializedLogs.content), keep),
                                      <<"\n">>) \o <<"\n">> ]
          ELSE InitializedLogs
    /\ taskGroupsCsv' = [exists |-> TRUE, content |-> r.content]
    /\ isInitialized' = TRUE
    /\ last' = [op |-> op, id |-> id, arg |-> arg, outcome |-> r.outcome, returned |-> <<>>]
    /\ UNCHANGED driftVars
    /\ initRun' = initialize
    /\ UNCHANGED <<clock, uuidCount, savedIds, calls, written>>

\* A call on the task-group collection has run.
GroupCallDone(op, id, arg, r) ==
    /\ taskLogsCsv' = InitializedLogs
    /\ taskGroupsCsv' = [exists |-> TRUE, content |-> r.content]
    /\ isInitialized' = TRUE
    /\ last' = [op |-> op, id |-> id, arg |-> arg, outcome |-> r.outcome, returned |-> <<>>]
    /\ UNCHANGED driftVars
    /\ initRun' = initialize
    /\ UNCHANGED <<clock, uuidCount, savedIds, calls, written>>

\* saveTaskLog has run: the entry is stored under its id, or under the one
\* uuidv4() returned last.
SaveDone(entry, r) ==
    LogCallDone("saveTaskLog", IF IsFalsy(entry.id) THEN Uuid(r.minted) ELSE entry.id, entry, r)

SaveTaskLogOf(entry) ==
    /\ Len(DataLines(InitializedLogs.content)) < MaxRows
    /\ SaveDone(entry, saveTaskLog(InitializedLogs.content, entry, uuidCount, clock))

SaveTaskLog == \E entry \in LogSamples : SaveTaskLogOf(entry)

\* The entry of the end-to-end scenario is saved.
SaveScenarioEntry == SaveTaskLogOf(EntryDraft)

UpdateTaskLog ==
    \E id \in LogIds, updates \in LogUpdates :
        LogCallDone("updateTaskLog", id, updates,
                    updateTaskLog(InitializedLogs.content, id, updates, uuidCount, clock))

DeleteTaskLog ==
    \E id \in LogIds :
        LogCallDone("deleteTaskLog", id, <<>>,
                    deleteTaskLog(InitializedLogs.content, id, uuidCount))

SaveTaskGroup ==
    \E group \in GroupSamples :
        /\ Len(DataLines(InitializedGroups.content)) < MaxRows
        /\ GroupCallDone("saveTaskGroup", group.id, group,
                         saveTaskGroup(InitializedGroups.content, group))

UpdateTaskGroup ==
    \E id \in GroupIds, updates \in GroupUpdates :
        GroupCallDone("updateTaskGroup", id, updates,
                      updateTaskGroup(InitializedGroups.content, id, updates, clock))

DeleteTaskGroup ==
    \E id \in GroupIds :
        GroupCallDone("deleteTaskGroup", id, <<>>,
                      deleteTaskGroup(InitializedGroups.content, id))

\* Time passes between two calls.
Tick ==
    /\ clock < MaxClock
    /\ clock' = clock + 1
    /\ UNCHANGED <<taskLogsCsv, taskGroupsCsv, isInitialized, uuidCount, savedIds, last,
                   calls, written, initRun, cache, dailyNote>>

\* The task-log collection.
Next ==
    \/ SaveTaskLog
    \/ UpdateTaskLog
    \/ DeleteTaskLog
    \/ Tick

Spec == Init /\ [][Next]_vars

\* The task-group collection, beside a task-log file that may hold entries
\* referring to the groups.
NextGroups ==
    \/ SaveTaskGroup
    \/ UpdateTaskGroup
    \/ DeleteTaskGroup
    \/ SaveScenarioEntry
    \/ UpdateTaskLog
    \/ DeleteTaskLog
    \/ Tick

SpecGroups == Init /\ [][NextGroups]_vars

\* ------------------------------------------------------------ query inputs
G2 == <<"22222222-2222-2222-2222-222222222222">>

\* An entry every field of which passes validation, as saveTaskLog stores it.
Stored(id, date, startTime, endTime, taskGroupId, taskGroupName, content) ==
    [ id |-> id, date |-> date, startTime |-> startTime, endTime |-> endTime,
      duration |-> 30, taskGroupId |-> taskGroupId, taskGroupName |-> taskGroupName,
      content |-> content, createdAt |-> toISOString(0), updatedAt |-> toISOString(0) ]

Early == Stored(<<"e1">>, <<"2024-01-03">>, <<"09:00">>, <<"09:30">>, G1, <<"Writing">>, <<"foo">>)

\* Starts at half past nine, the hour written with one digit.
Morning ==
    Stored(<<"e2">>, <<"2024-01-05">>, <<"9", ":", "3", "0">>, <<"10:00">>, G1, <<"Writing">>,
           <<"bar">>)

Midday == Stored(<<"e3">>, <<"2024-01-05">>, <<"10:00">>, <<"10:30">>, G2, <<"Admin">>, <<"Foo">>)

\* Ends after business hours; only its group's name holds "foo".
Late == Stored(<<"e4">>, <<"2024-01-07">>, <<"17:00">>, <<"18:00">>, G2, <<"foo">>, <<"bar">>)

\* The lists of entries the queries run over; the last holds the entry of the
\* end-to-end scenario as saveTaskLog stored it.
QueryStores ==
    { <<Early>>, <<Early, Midday, Late>>, <<Morning, Midday>>, <<Midday, Late, Morning>>,
      <<Early, NewEntry(EntryDraft, 0, 0)>> }

DateRange(startDate, endDate) ==
    [given |-> TRUE, startDate |-> startDate, endDate |-> endDate]

DateRanges ==
    { DateRange(<<"2024-01-03">>, <<"2024-01-05">>),
      DateRange(<<"2024-01-05">>, <<"2024-01-05">>),
      DateRange(<<"2024-01-05">>, <<"2024-01-07">>) }

TimeRange(type, startTime, endTime) ==
    [given |-> TRUE, type |-> type, startTime |-> startTime, endTime |-> endTime]

TimeRanges ==
    { TimeRange("custom", <<"09:00">>, <<"10:30">>),
      TimeRange("business_hours", <<"09:00">>, <<"17:00">>),
      TimeRange("all_day", Undefined, Undefined) }

GroupFilter(type, selectedGroupIds) ==
    [given |-> TRUE, type |-> type, idsGiven |-> TRUE, selectedGroupIds |-> selectedGroupIds]

GroupFilters ==
    { GroupFilter("specific", <<G1>>), GroupFilter("multiple", <<G1, G2>>),
      GroupFilter("all", <<>>) }

Search(query, caseSensitive) ==
    [given |-> TRUE, query |-> query, caseSensitive |-> caseSensitive,
     fieldsGiven |-> FALSE, fields |-> <<>>]

SearchFields(query, caseSensitive, fields) ==
    [given |-> TRUE, query |-> query, caseSensitive |-> caseSensitive,
     fieldsGiven |-> TRUE, fields |-> fields]

SearchFilters ==
    { Search(<<"foo">>, FALSE),
      SearchFields(<<"foo">>, FALSE, <<"content", "taskGroupName">>),
      SearchFields(<<"foo">>, TRUE, <<"content", "taskGroupName">>),
      SearchFields(<<"Foo">>, TRUE, <<"content">>) }

Filters(dateRange, timeRange, taskGroup, search) ==
    [dateRange |-> dateRange, timeRange |-> timeRange, taskGroup |-> taskGroup,
     search |-> search]

\* One filter alone, and the date range with each of the others.
FilterSets ==
    { Filters(d, NotGiven, NotGiven, NotGiven) : d \in DateRanges }
        \cup { Filters(d, t, NotGiven, NotGiven) :
                  d \in {NotGiven, DateRange(<<"2024-01-05">>, <<"2024-01-07">>)},
                  t \in TimeRanges }
        \cup { Filters(NotGiven, NotGiven, g, NotGiven) : g \in GroupFilters }
        \cup { Filters(d, NotGiven, NotGiven, q) :
                  d \in {NotGiven, DateRange(<<"2024-01-03">>, <<"2024-01-05">>)},
                  q \in SearchFilters }

\* ------------------------------------------------------------ query actions
\* A store instance is constructed over files an earlier run has written.
InitQuery ==
    /\ \E entries \in QueryStores :
          /\ taskLogsCsv = [exists |-> TRUE, content |-> writeTaskLogsCsv(entries)]
          /\ savedIds = { entries[k].id : k \in 1..Len(entries) }
    /\ taskGroupsCsv = [exists |-> TRUE, content |-> HeaderOnly(TaskGroupsHeaderLine)]
    /\ isInitialized = FALSE
    /\ clock = 0
    /\ uuidCount = 0
    /\ last = NoCall
    /\ calls = [p \in Callers |-> Idle]
    /\ written = <<>>
    /\ initRun = NoInit
    /\ cache = NoCache
    /\ dailyNote = <<>>

\* A query has run.
QueryDone(op, arg, r) ==
    /\ r.minted <= MaxQueryUuid
    /\ taskLogsCsv' = InitializedLogs
    /\ taskGroupsCsv' = InitializedGroups
    /\ isInitialized' = TRUE
    /\ uuidCount' = r.minted
    /\ last' = [op |-> op, id |-> <<>>, arg |-> arg, outcome |-> r.outcome,
                returned |-> r.entries]
    /\ UNCHANGED driftVars
    /\ initRun' = initialize
    /\ UNCHANGED <<clock, savedIds, calls, written>>

GetTaskLogs ==
    \E filter \in DateRanges \cup {NotGiven} :
        \E r \in getTaskLogs(InitializedLogs.content, filter, uuidCount) :
            QueryDone("getTaskLogs", filter, r)

SearchTaskLogs ==
    \E searchFilter \in SearchFilters :
        \E r \in searchTaskLogs(InitializedLogs.content, searchFilter, uuidCount) :
            QueryDone("searchTaskLogs", searchFilter, r)

GetFilteredTaskLogs ==
    \E filters \in FilterSets :
        \E r \in getFilteredTaskLogs(InitializedLogs.content, filters, uuidCount) :
            QueryDone("getFilteredTaskLogs", filters, r)

\* The queries, over each of the stores.
NextQuery ==
    \/ GetTaskLogs
    \/ SearchTaskLogs
    \/ GetFilteredTaskLogs

SpecQuery == InitQuery /\ [][NextQuery]_vars

\* ------------------------------------------------------- overlapping saves
\* A second well-formed entry.
EntryBar == [EntryFoo EXCEPT !.id = <<"e2">>, !.content = <<"bar">>]

\* A second group, its name free of commas.
GroupNotes == [GroupAdmin EXCEPT !.id = <<"g2">>]

\* The saves two callers may issue at the same time.
RaceCalls ==
    { [op |-> "saveTaskLog", arg |-> entry] : entry \in {EntryFoo, EntryBar} }
        \cup { [op |-> "saveTaskGroup", arg |-> group] : group \in {GroupWriting, GroupNotes} }

\* Caller p calls saveTaskLog or saveTaskGroup, which runs up to the end of
\* initialize().
BeginSave(p) ==
    /\ calls[p].pc = "idle"
    /\ \E call \in RaceCalls :
          calls' = [calls EXCEPT ![p] = [Idle EXCEPT !.pc = "read", !.op = call.op,
                                                     !.arg = call.arg]]
    /\ taskLogsCsv' = InitializedLogs
    /\ taskGroupsCsv' = InitializedGroups
    /\ isInitialized' = TRUE
    /\ UNCHANGED driftVars
    /\ initRun' = initialize
    /\ UNCHANGED <<clock, uuidCount, savedIds, last, written>>

\* What the save of caller p makes of the file as it is now: the content to
\* write, the identifiers minted, and how the save ends.
Computed(p) ==
    IF calls[p].op = "saveTaskLog"
    THEN saveTaskLog(taskLogsCsv.content, calls[p].arg, uuidCount, clock)
    ELSE [ content |-> saveTaskGroup(taskGroupsCsv.content, calls[p].arg).content,
           minted |-> uuidCount,
           outcome |-> saveTaskGroup(taskGroupsCsv.content, calls[p].arg).outcome ]

\* The read of the save of caller p returns (or throws), and the save goes on
\* to the call of fs.writeFile.
ReadDone(p, r) ==
    /\ calls' = [calls EXCEPT ![p] = [@ EXCEPT !.pc = IF r.outcome = "ok" THEN "write" ELSE "done",
                                               !.pending = r.content,
                                               !.readAfter = Range(written),
                                               !.outcome = r.outcome]]
    /\ uuidCount' = r.minted
    /\ UNCHANGED <<taskLogsCsv, taskGroupsCsv, isInitialized, clock, savedIds, last, written,
                   initRun, cache, dailyNote>>

ReadForSave(p) == calls[p].pc = "read" /\ ReadDone(p, Computed(p))

\* A save isolated from the other saves: it writes what it makes of the file
\* as the file is when it writes.
RewrittenAfresh(p) == Computed(p).content

\* The content fs.writeFile is given by the save of caller p: what the save
\* made of the file it read.
Rewritten(p) == calls[p].pending

\* The save of caller p rewrites its file, refreshes the views and returns.
WriteForSave(p) ==
    /\ calls[p].pc = "write"
    /\ IF calls[p].op = "saveTaskLog"
       THEN /\ taskLogsCsv' = [exists |-> TRUE, content |-> Rewritten(p)]
            /\ savedIds' = savedIds \cup {calls[p].arg.id}
            /\ UNCHANGED taskGroupsCsv
       ELSE /\ taskGroupsCsv' = [exists |-> TRUE, content |-> Rewritten(p)]
            /\ UNCHANGED <<taskLogsCsv, savedIds>>
    /\ calls' = [calls EXCEPT ![p] = [@ EXCEPT !.pc = "done", !.effects = MutationSteps]]
    /\ written' = Append(written, p)
    /\ last' = [op |-> calls[p].op, id |-> calls[p].arg.id, arg |-> calls[p].arg,
                outcome |-> "ok", returned |-> <<>>]
    /\ UNCHANGED <<isInitialized, clock, uuidCount, initRun, cache, dailyNote>>

\* Two callers, a save each, on one store instance.
NextRace ==
    \E p \in Callers :
        \/ BeginSave(p)
        \/ ReadForSave(p)
        \/ WriteForSave(p)

SpecRace == Init /\ [][NextRace]_vars

\* -------------------------------------------------------- lifecycle actions
\* The row db.all returns for SELECT COUNT(*) as count FROM task_logs LIMIT 1,
\* as executeCsvQuery reads it: none of the nine columns is there.
CountRow == [h \in Range(TASK_LOG_CSV_HEADERS) |-> Undefined]

\* isHealthy after initialize(): both files are there; the test query goes
\* through executeCsvQuery, and any rejection makes the answer false.
isHealthy(minted) == ReadDataRows(<<CountRow>>, minted)

IsHealthy ==
    /\ taskLogsCsv' = InitializedLogs
    /\ taskGroupsCsv' = InitializedGroups
    /\ isInitialized' = TRUE
    /\ uuidCount' = isHealthy(uuidCount).minted
    /\ last' = [op |-> "isHealthy", id |-> <<>>, arg |-> <<>>, outcome |-> "ok",
                returned |-> isHealthy(uuidCount).ok]
    /\ UNCHANGED driftVars
    /\ initRun' = initialize
    /\ UNCHANGED <<clock, savedIds, calls, written>>

\* The process ends and a new DuckDBStore is constructed over the same files.
Restart ==
    /\ isInitialized
    /\ isInitialized' = FALSE
    /\ last' = [NoCall EXCEPT !.op = "constructor"]
    /\ UNCHANGED driftVars
    /\ initRun' = NoInit
    /\ UNCHANGED <<taskLogsCsv, taskGroupsCsv, clock, uuidCount, savedIds, calls, written>>

\* ------------------------------------------------------------ export, import
\* importData: for (const group of parsed.taskGroups) await saveTaskGroup(group),
\* from the k-th group on; saved is what the save of the group before made of
\* the file.  A save that throws ends the import.
RECURSIVE ImportGroupsFrom(_, _, _)
ImportGroupsFrom(saved, groups, k) ==
    IF saved.outcome # "ok" \/ k > Len(groups) THEN saved
    ELSE ImportGroupsFrom(saveTaskGroup(saved.content, groups[k]), groups, k + 1)

\* importData: for (const log of parsed.taskLogs) await saveTaskLog(log).
RECURSIVE ImportLogsFrom(_, _, _, _)
ImportLogsFrom(saved, logs, k, t) ==
    IF saved.outcome # "ok" \/ k > Len(logs) THEN saved
    ELSE ImportLogsFrom(saveTaskLog(saved.content, logs[k], saved.minted, t), logs, k + 1, t)

\* The end of importData: groups is what the loop over the groups made of
\* task_groups.csv, logs what the loop over the logs made of task_logs.csv (it
\* does not run when a group failed); every error leaves as VALIDATION_ERROR.
ImportOutcome(groups, logs) ==
    [ taskLogs |-> logs.content,
      taskGroups |-> groups.content,
      minted |-> logs.minted,
      outcome |-> IF groups.outcome = "ok" /\ logs.outcome = "ok" THEN "ok"
                  ELSE "VALIDATION_ERROR" ]

ImportInto(groups, logsContent, doc, minted, t) ==
    ImportOutcome(groups,
                  IF groups.outcome = "ok"
                  THEN ImportLogsFrom([content |-> logsContent, minted |-> minted,
                                       outcome |-> "ok"],
                                      doc.taskLogs, 1, t)
                  ELSE [content |-> logsContent, minted |-> minted, outcome |-> "ok"])

\* importData after initialize(): the contents of the two files before, the
\* parsed document (JSON.parse gives back the strings, numbers and booleans
\* JSON.stringify was given, and leaves out what was undefined) and
\* options.overwrite.
importData(logsContent, groupsContent, doc, overwrite, minted, t) ==
    ImportInto(ImportGroupsFrom([ content |-> IF overwrite THEN HeaderOnly(TaskGroupsHeaderLine)
                                              ELSE groupsContent,
                                  outcome |-> "ok" ],
                                doc.taskGroups, 1),
               IF overwrite THEN HeaderOnly(TaskLogsHeaderLine) ELSE logsContent,
               doc, minted, t)

\* The end of exportData: the document of what getTaskLogs() and
\* getTaskGroups() returned; a failure of either leaves as UNKNOWN.
ExportOf(read, got) ==
    [ outcome |-> IF read.ok /\ got.outcome = "ok" THEN "ok" ELSE "UNKNOWN",
      minted |-> read.minted,
      document |-> [taskLogs |-> read.entries, taskGroups |-> got.groups] ]

\* exportData after initialize().
exportData(logsContent, groupsContent, minted) ==
    ExportOf(readTaskLogsCsv(logsContent, minted), getTaskGroups(groupsContent))

\* The documents a caller imports: a group and two entries; a group with a
\* comma in its name; and the document the last exportData returned.
ImportDocs ==
    { [taskGroups |-> <<GroupWriting>>, taskLogs |-> <<Early, Midday>>],
      [taskGroups |-> <<GroupComma>>, taskLogs |-> <<Early>>] }
        \cup (IF last.op = "exportData" /\ last.outcome = "ok" THEN {last.returned} ELSE {})

ExportDone(r) ==
    /\ r.minted <= MaxUuid
    /\ taskLogsCsv' = InitializedLogs
    /\ taskGroupsCsv' = InitializedGroups
    /\ isInitialized' = TRUE
    /\ uuidCount' = r.minted
    /\ last' = [op |-> "exportData", id |-> <<>>, arg |-> <<>>, outcome |-> r.outcome,
                returned |-> IF r.outcome = "ok" THEN r.document ELSE <<>>]
    /\ UNCHANGED driftVars
    /\ initRun' = initialize
    /\ UNCHANGED <<clock, savedIds, calls, written>>

ExportData == ExportDone(exportData(InitializedLogs.content, InitializedGroups.content, uuidCount))

ImportDone(doc, overwrite, r) ==
    /\ r.minted <= MaxUuid
    /\ Len(DataLines(r.taskLogs)) <= MaxImportRows
    /\ taskLogsCsv' = [exists |-> TRUE, content |-> r.taskLogs]
    /\ taskGroupsCsv' = [exists |-> TRUE, content |-> r.taskGroups]
    /\ isInitialized' = TRUE
    /\ uuidCount' = r.minted
    /\ savedIds' = IF r.outcome = "ok"
                   THEN (IF overwrite THEN {} ELSE savedIds)
                           \cup { doc.taskLogs[k].id : k \in 1..Len(doc.taskLogs) }
                   ELSE savedIds
    /\ last' = [op |-> "importData", id |-> <<>>,
                arg |-> [document |-> doc, overwrite |-> overwrite],
                outcome |-> r.outcome, returned |-> <<>>]
    /\ UNCHANGED driftVars
    /\ initRun' = initialize
    /\ UNCHANGED <<clock, calls, written>>

ImportData ==
    \E doc \in ImportDocs, overwrite \in BOOLEAN :
        ImportDone(doc, overwrite,
                   importData(InitializedLogs.content, InitializedGroups.content, doc,
                              overwrite, uuidCount, clock))

\* A group whose color is text of three lines, the second of them the text of
\* the header line.
GroupHeaderInColor ==
    [ id |-> <<"g3">>, name |-> <<"Notes">>,
      color |-> <<"red", "\n">> \o TaskGroupsHeaderLine \o <<"\n", "blue">>,
      createdAt |-> toISOString(0), updatedAt |-> toISOString(0), isActive |-> TRUE ]

SaveMultilineGroup ==
    /\ Len(DataLines(InitializedGroups.content)) < MaxRows
    /\ GroupCallDone("saveTaskGroup", GroupHeaderInColor.id, GroupHeaderInColor,
                     saveTaskGroup(InitializedGroups.content, GroupHeaderInColor))

\* The two collections with export and import.
NextImport ==
    \/ SaveTaskLog
    \/ SaveTaskGroup
    \/ SaveMultilineGroup
    \/ DeleteTaskGroup
    \/ ExportData
    \/ ImportData

SpecImport == Init /\ [][NextImport]_vars

\* A store through its life: saves, health checks and restarts.
NextLifecycle ==
    \/ SaveTaskLog
    \/ SaveTaskGroup
    \/ DeleteTaskGroup
    \/ IsHealthy
    \/ Restart
    \/ Tick

SpecLifecycle == Init /\ [][NextLifecycle]_vars

\* ------------------------------------------------------------------- stats
\* (await fs.stat(path)).size, for a file of one-byte characters.
StatSize(content) == Len(Chars(content))

\* taskLogs.map((log) => log.date)
DatesOf(entries) == <<>> \o [k \in 1..Len(entries) |-> entries[k].date]

\* dates.sort()[0] and dates.sort()[dates.length - 1]: the least and the
\* greatest in the order of the code units; "" when there is no date.
EarliestOf(dates) ==
    IF dates = <<>> THEN <<>>
    ELSE CHOOSE d \in Range(dates) : \A e \in Range(dates) : ~TextLess(Chars(e), Chars(d))

LatestOf(dates) ==
    IF dates = <<>> THEN <<>>
    ELSE CHOOSE d \in Range(dates) : \A e \in Range(dates) : ~TextLess(Chars(d), Chars(e))

\* A getStats that takes the first and the last date of the file as they come.
StatsOfUnsorted(read, got, logsSize, groupsSize) ==
    IF ~read.ok \/ got.outcome # "ok"
    THEN [outcome |-> "UNKNOWN", minted |-> read.minted, stats |-> <<>>]
    ELSE [ outcome |-> "ok",
           minted |-> read.minted,
           stats |-> [ totalTaskLogs |-> Len(read.entries),
                       totalTaskGroups |-> Len(got.groups),
                       dateRange |->
                           [ earliest |-> IF read.entries = <<>> THEN <<>>
                                          ELSE DatesOf(read.entries)[1],
                             latest |-> IF read.entries = <<>> THEN <<>>
                                        ELSE DatesOf(read.entries)[Len(read.entries)] ],
                       storageSize |-> logsSize + groupsSize ] ]

\* The end of getStats: what getTaskLogs() and getTaskGroups() returned, and
\* the sizes of the two files; a failure of either leaves as UNKNOWN.
StatsOf(read, got, logsSize, groupsSize) ==
    IF ~read.ok \/ got.outcome # "ok"
    THEN [outcome |-> "UNKNOWN", minted |-> read.minted, stats |-> <<>>]
    ELSE [ outcome |-> "ok",
           minted |-> read.minted,
           stats |-> [ totalTaskLogs |-> Len(read.entries),
                       totalTaskGroups |-> Len(got.groups),
                       dateRange |-> [ earliest |-> EarliestOf(DatesOf(read.entries)),
                                       latest |-> LatestOf(DatesOf(read.entries)) ],
                       storageSize |-> logsSize + groupsSize ] ]

\* getStats after initialize().
getStats(logsContent, groupsContent, minted) ==
    StatsOf(readTaskLogsCsv(logsContent, minted), getTaskGroups(groupsContent),
            StatSize(logsContent), StatSize(groupsContent))

StatsDone(r) ==
    /\ r.minted <= MaxQueryUuid
    /\ taskLogsCsv' = InitializedLogs
    /\ taskGroupsCsv' = InitializedGroups
    /\ isInitialized' = TRUE
    /\ uuidCount' = r.minted
    /\ last' = [op |-> "getStats", id |-> <<>>, arg |-> <<>>, outcome |-> r.outcome,
                returned |-> r.stats]
    /\ UNCHANGED driftVars
    /\ initRun' = initialize
    /\ UNCHANGED <<clock, savedIds, calls, written>>

GetStats == StatsDone(getStats(InitializedLogs.content, InitializedGroups.content, uuidCount))

\* A store that is new, or one that holds entries already.
InitStats == Init \/ InitQuery

\* Groups are saved and deleted, entries saved, and the statistics asked for.
NextStats ==
    \/ SaveTaskLog
    \/ SaveTaskGroup
    \/ DeleteTaskGroup
    \/ GetStats

SpecStats == InitStats /\ [][NextStats]_vars

\* ------------------------------------------------------------------- reads
\* Entries are saved and read, by one instance of the store or by the next.
NextRead ==
    \/ SaveTaskLog
    \/ GetTaskLogs
    \/ Restart

SpecRead == InitStats /\ [][NextRead]_vars

\* -------------------------------------------------------------- timestamps
\* An entry whose caller dated its creation at the latest clock reading.
EntryAhead == [EntryFoo EXCEPT !.createdAt = toISOString(MaxClock)]

SaveTaskLogAhead == SaveTaskLogOf(EntryAhead)

\* Entries and groups are saved and updated as time passes.
NextTimestamps ==
    \/ SaveTaskLogAhead
    \/ UpdateTaskLog
    \/ SaveTaskGroup
    \/ UpdateTaskGroup
    \/ Tick

SpecTimestamps == Init /\ [][NextTimestamps]_vars

\* ------------------------------------------------------------- identifiers
\* An entry and a group whose id is the empty string.
EntryWithoutId == [EntryFoo EXCEPT !.id = <<>>]

GroupWithoutId == [GroupWriting EXCEPT !.id = <<>>]

SaveTaskLogWithoutId == SaveTaskLogOf(EntryWithoutId)

SaveTaskGroupWithoutId ==
    /\ Len(DataLines(InitializedGroups.content)) < MaxRows
    /\ GroupCallDone("saveTaskGroup", GroupWithoutId.id, GroupWithoutId,
                     saveTaskGroup(InitializedGroups.content, GroupWithoutId))

\* Entries and groups are saved, with an id and without one.
NextIds ==
    \/ SaveTaskLog
    \/ SaveTaskLogWithoutId
    \/ SaveTaskGroup
    \/ SaveTaskGroupWithoutId

SpecIds == Init /\ [][NextIds]_vars

\* ---------------------------------------------------------------- settings
\* throw new DataStoreError("Settings management not implemented yet", "UNKNOWN")
SettingsNotImplemented ==
    [code |-> "UNKNOWN", message |-> "Settings management not implemented yet"]

saveSetting(key, value) == SettingsNotImplemented

getSetting(key) == SettingsNotImplemented

deleteSetting(key) == SettingsNotImplemented

SettingKeys == {<<>>, <<"color">>}

SettingValues == {Undefined, <<"red">>}

\* A settings call that initializes the store first, as the calls on the
\* collections do.
SettingCallDoneInitializing(op, key, value, r) ==
    /\ taskLogsCsv' = InitializedLogs
    /\ taskGroupsCsv' = InitializedGroups
    /\ isInitialized' = TRUE
    /\ last' = [op |-> op, id |-> key, arg |-> value, outcome |-> r.code,
                returned |-> r.message]
    /\ UNCHANGED driftVars
    /\ initRun' = initialize
    /\ UNCHANGED <<clock, uuidCount, savedIds, calls, written>>

\* A call of the settings API has run: it threw r, and did nothing before.
SettingCallDone(op, key, value, r) ==
    /\ last' = [op |-> op, id |-> key, arg |-> value, outcome |-> r.code,
                returned |-> r.message]
    /\ UNCHANGED driftVars
    /\ initRun' = NoInit
    /\ UNCHANGED <<taskLogsCsv, taskGroupsCsv, isInitialized, clock, uuidCount, savedIds,
                   calls, written>>

SaveSetting ==
    \E key \in SettingKeys, value \in SettingValues :
        SettingCallDone("saveSetting", key, value, saveSetting(key, value))

GetSetting ==
    \E key \in SettingKeys : SettingCallDone("getSetting", key, <<>>, getSetting(key))

DeleteSetting ==
    \E key \in SettingKeys : SettingCallDone("deleteSetting", key, <<>>, deleteSetting(key))

\* A store in use, and the settings API called on it at any time.
NextSettings ==
    \/ SaveTaskLog
    \/ SaveTaskGroup
    \/ Restart
    \/ SaveSetting
    \/ GetSetting
    \/ DeleteSetting

SpecSettings == Init /\ [][NextSettings]_vars

\* ------------------------------------------------------- the codec by itself
\* The longest group name given to the codec.
MaxNameLen == 3

\* The characters of the names: a letter, the quote, the backslash, the
\* letter n (after a backslash: the two-character sequence backslash-n) and
\* the line feed.
NameAlphabet == {"a", "\"", "\\", "n", "\n"}

Names == UNION { [1..k -> NameAlphabet] : k \in 1..MaxNameLen }

\* The TaskGroups given to the codec.
TaskGroups ==
    { [ id |-> <<"g1">>, name |-> <<>> \o name, color |-> color,
        createdAt |-> toISOString(0), updatedAt |-> toISOString(1), isActive |-> isActive ] :
          name \in Names, color \in {Undefined, <<"red">>}, isActive \in BOOLEAN }

\* The TaskGroup CSV rows given to the codec: the rows of the TaskGroups.
TaskGroupRows == { taskGroupToCsvRow(group) : group \in TaskGroups }

\* An input of kind `of`, before the codec has been applied to it.
Given(of, value) == [NoCall EXCEPT !.op = "given", !.arg = [of |-> of, value |-> value]]

IsGiven(of) == last.op = "given" /\ last.arg.of = of

\* The codec has been applied: op to the input, with this result.
Applied(op, returned) ==
    /\ last' = [last EXCEPT !.op = op, !.arg = last.arg.value, !.outcome = "ok",
                            !.returned = returned]
    /\ UNCHANGED <<taskLogsCsv, taskGroupsCsv, isInitialized, clock, uuidCount, savedIds,
                   calls, written, initRun, cache, dailyNote>>

\* taskGroupToCsvRow(csvRowToTaskGroup(row))
RoundTripTaskGroupRow ==
    /\ IsGiven("taskGroupRow")
    /\ Applied("csvRowToTaskGroup",
               [ group |-> csvRowToTaskGroup(last.arg.value),
                 row |-> taskGroupToCsvRow(csvRowToTaskGroup(last.arg.value)) ])

\* A task-log CSV row that passes every rule.
ValidRow == taskLogEntryToCsvRow(Early)

\* Values that break the rule of a field: the empty value, a space, and a
\* value its pattern does not match (a date with a space after it, a time
\* with seconds, a negative number, a short identifier, a date for a timestamp).
Breaking(field) ==
    {<<>>, <<" ">>} \cup
    CASE field = "date" -> {<<"2024-01-05", " ">>}
      [] field = "start_time" -> {<<"9", "a", "m">>}
      [] field = "end_time" -> {<<"09:30", ":", "0", "0">>}
      [] field = "duration_minutes" -> {<<"-", "5">>}
      [] field = "task_group_id" -> {<<"g1">>}
      [] field \in {"created_at", "updated_at"} -> {<<"2024-01-05">>}
      [] OTHER -> {}

\* The rows that break one rule, and the rows that break two.
BrokenRows ==
    { [ValidRow EXCEPT ![f] = v] :
        f \in Range(TASK_LOG_CSV_HEADERS), v \in UNION {Breaking(h) : h \in Range(TASK_LOG_CSV_HEADERS)} }
    \cup
    { [ValidRow EXCEPT ![f] = <<>>, ![g] = <<" ">>] :
        f \in Range(TASK_LOG_CSV_HEADERS), g \in Range(TASK_LOG_CSV_HEADERS) }

\* The lists of data rows handed to csvRowToTaskLogEntry one by one: a row by
\* itself, and after a row that passes.
TaskLogRowLists ==
    {<<ValidRow>>, <<ValidRow, ValidRow>>}
    \cup { <<row>> : row \in BrokenRows } \cup { <<ValidRow, row>> : row \in BrokenRows }

\* dataRows.map((row, index) => csvRowToTaskLogEntry(row, index + 2))
ConvertTaskLogRows ==
    /\ IsGiven("taskLogRows")
    /\ Applied("csvRowToTaskLogEntry", ReadDataRows(last.arg.value, 0))

\* What the entries written hold as content: plain text, a line feed, a
\* carriage return and a line feed, a comma, a quote, the two characters
\* backslash and n, and spaces at both ends.
Contents ==
    { <<"foo">>, <<"foo", "\n", "bar">>, <<"foo", "\r", "\n", "bar">>, <<"foo", ",", "bar">>,
      <<"foo", "\"", "bar">>, <<"foo", "\\", "n", "bar">>, <<" ", "foo", " ">> }

\* And as the name of their group: plain text, a line feed, a comma.
TaskGroupNames == { <<"Writing">>, <<"Admin", "\n", "foo">>, <<"Admin", ",", "foo">> }

Entries ==
    { [Early EXCEPT !.content = content, !.taskGroupName = name] :
          content \in Contents, name \in TaskGroupNames }

\* The lists of entries written: none, one, and one before or after another.
EntryLists ==
    {<<>>} \cup { <<entry>> : entry \in Entries }
           \cup { <<Early, entry>> : entry \in Entries }
           \cup { <<entry, Midday>> : entry \in Entries }

\* writeTaskLogsCsv(path, entries), then readTaskLogsCsv(path)
WriteThenReadTaskLogs ==
    /\ IsGiven("entries")
    /\ Applied("writeTaskLogsCsv",
               [ content |-> writeTaskLogsCsv(last.arg.value),
                 read |-> readTaskLogsCsv(writeTaskLogsCsv(last.arg.value), 0) ])

\* Lines of a CSV file: bare fields; a delimiter, a doubled quote and a line
\* feed inside a quoted field; an empty quoted field.
CsvRecords ==
    { <<"a", ",", "b">>,
      <<"\"", "a", ",", "b", "\"", ",", "c">>,
      <<"\"", "a", "\"", "\"", "b", "\"", ",", "c">>,
      <<"\"", "a", "\n", "b", "\"", ",", "c">>,
      <<"a", ",", "\"", "\"", ",", "b">> }

\* The contents parsed: one record, or two, each ended by a line feed.
CsvContents ==
    { record \o <<"\n">> : record \in CsvRecords }
    \cup { first \o <<"\n">> \o second \o <<"\n">> : first \in CsvRecords, second \in CsvRecords }

\* parseCsvContent(content)
ParseCsvContent ==
    /\ IsGiven("content")
    /\ Applied("parseCsvContent", parseCsvContent(last.arg.value))

InitCodec ==
    /\ taskLogsCsv = NoFile
    /\ taskGroupsCsv = NoFile
    /\ isInitialized = FALSE
    /\ clock = 0
    /\ uuidCount = 0
    /\ savedIds = {}
    /\ calls = [p \in Callers |-> Idle]
    /\ written = <<>>
    /\ initRun = NoInit
    /\ cache = NoCache
    /\ dailyNote = <<>>
    /\ \/ \E row \in TaskGroupRows : last = Given("taskGroupRow", row)
       \/ \E rows \in TaskLogRowLists : last = Given("taskLogRows", rows)
       \/ \E entries \in EntryLists : last = Given("entries", entries)
       \/ \E content \in CsvContents : last = Given("content", content)

NextCodec ==
    \/ RoundTripTaskGroupRow
    \/ ConvertTaskLogRows
    \/ WriteThenReadTaskLogs
    \/ ParseCsvContent

SpecCodec == InitCodec /\ [][NextCodec]_vars

\* ----------------------------------------------------------------- factory
\* A sub-configuration that is not there (config.duckdbConfig is undefined).
Absent == [given |-> FALSE]

\* path.dirname and path.join, a path being the sequence of its components.
Dirname(path) == IF Len(path) <= 1 THEN <<".">> ELSE SubSeq(path, 1, Len(path) - 1)

PathJoin(dir, name) == IF dir = <<".">> THEN <<name>> ELSE Append(dir, name)

\* throw new DataStoreError(message, code)
Thrown(code, message) == [threw |-> TRUE, code |-> code, message |-> message]

\* A constructor that does not look at the config it is given.
NewDuckDBStoreUnvalidated(config) ==
    [ threw |-> FALSE,
      store |-> "DuckDBStore",
      taskLogsCsvPath |-> <<"task_logs.csv">>,
      taskGroupsCsvPath |-> <<"task_groups.csv">>,
      isInitialized |-> FALSE ]

\* new DuckDBStore(config)
NewDuckDBStore(config) ==
    IF config.type # "duckdb" \/ ~config.duckdbConfig.given
    THEN Thrown("VALIDATION_ERROR", <<"Invalid DuckDB configuration">>)
    ELSE [ threw |-> FALSE,
           store |-> "DuckDBStore",
           taskLogsCsvPath |-> PathJoin(Dirname(config.duckdbConfig.csvPath), "task_logs.csv"),
           taskGroupsCsvPath |-> PathJoin(Dirname(config.duckdbConfig.csvPath), "task_groups.csv"),
           isInitialized |-> FALSE ]

createDataStore(config) ==
    CASE config.type = "duckdb" -> NewDuckDBStore(config)
      [] config.type = "local" ->
            Thrown("UNKNOWN", <<"Local file store ", "not implemented", " yet">>)
      [] config.type = "firestore" ->
            Thrown("UNKNOWN", <<"Firestore store ", "not implemented", " yet">>)
      [] config.type = "obsidian" ->
            Thrown("UNKNOWN", <<"Obsidian store ", "not implemented", " yet">>)
      [] OTHER -> Thrown("VALIDATION_ERROR", <<"Unsupported storage type: ", config.type>>)

\* The type of a config: the four of StorageType, and two that are none of them.
ConfigTypes == {"duckdb", "local", "firestore", "obsidian", "sqlite", ""}

DuckdbConfigs ==
    { Absent,
      [given |-> TRUE, csvPath |-> <<"data", "logs.csv">>],
      [given |-> TRUE, csvPath |-> <<"logs.csv">>] }

FirebaseConfigs == {Absent, [given |-> TRUE, projectId |-> "drift"]}

ObsidianConfigs == {Absent, [given |-> TRUE, vaultPath |-> <<"vault">>]}

StorageConfigs ==
    [ type : ConfigTypes, duckdbConfig : DuckdbConfigs, firebaseConfig : FirebaseConfigs,
      obsidianConfig : ObsidianConfigs ]

\* createDataStore(config)
CreateDataStore ==
    /\ IsGiven("config")
    /\ Applied("createDataStore", createDataStore(last.arg.value))

InitFactory ==
    /\ taskLogsCsv = NoFile
    /\ taskGroupsCsv = NoFile
    /\ isInitialized = FALSE
    /\ clock = 0
    /\ uuidCount = 0
    /\ savedIds = {}
    /\ calls = [p \in Callers |-> Idle]
    /\ written = <<>>
    /\ initRun = NoInit
    /\ cache = NoCache
    /\ dailyNote = <<>>
    /\ \E config \in StorageConfigs : last = Given("config", config)

NextFactory ==
    \/ CreateDataStore

SpecFactory == InitFactory /\ [][NextFactory]_vars

\* ------------------------------------------------- a mutation, step by step
\* An Error that is neither a CsvParseError nor a DataStoreError: one of the
\* file system, one of DuckDB, a TypeError.
RawError(from) == [class |-> "Error", from |-> from]

\* new CsvParseError(message, ...): it keeps the message of what it caught.
CsvParseError(from) == [class |-> "CsvParseError", from |-> from]

\* new DataStoreError(message, code, details)
DataStoreError(code, details) ==
    [class |-> "DataStoreError", code |-> code, details |-> details]

\* The code union of DataStoreError.
DataStoreErrorCodes ==
    {"CONNECTION_ERROR", "VALIDATION_ERROR", "NOT_FOUND", "DUPLICATE", "PERMISSION_ERROR",
     "UNKNOWN"}

\* The five mutations that rewrite a file and re-create the views themselves.
LogMutations == {"saveTaskLog", "updateTaskLog", "deleteTaskLog"}

GroupMutations == {"saveTaskGroup", "deleteTaskGroup"}

\* A catch clause that lets every error through as it is.
CaughtRethrowing(op, error) ==
    CASE op = "saveTaskLog" ->
            IF error.class = "CsvParseError" THEN DataStoreError("VALIDATION_ERROR", error)
            ELSE DataStoreError("UNKNOWN", error)
      [] op \in {"updateTaskLog", "deleteTaskLog", "deleteTaskGroup"} -> error
      [] OTHER -> DataStoreError("UNKNOWN", error)

\* The catch clause of each mutation: what it throws on catching error.
Caught(op, error) ==
    CASE op = "saveTaskLog" ->
            IF error.class = "CsvParseError" THEN DataStoreError("VALIDATION_ERROR", error)
            ELSE DataStoreError("UNKNOWN", error)
      [] op \in {"updateTaskLog", "deleteTaskLog", "deleteTaskGroup"} ->
            IF error.class = "DataStoreError" THEN error
            ELSE DataStoreError("UNKNOWN", error)
      [] OTHER -> DataStoreError("UNKNOWN", error)

\* What reaches the try block of a mutation when the file system fails the
\* read: readTaskLogsCsv makes a CsvParseError of it, saveTaskGroup reads the
\* file itself, and deleteTaskGroup reads through getTaskGroups, which wraps.
ReadFault(op) ==
    CASE op \in LogMutations -> CsvParseError("fs")
      [] op = "saveTaskGroup" -> RawError("fs")
      [] OTHER -> DataStoreError("UNKNOWN", RawError("fs"))

\* What reaches the try block when fs.writeFile fails: writeTaskLogsCsv makes
\* a CsvParseError of it, the group mutations call fs.writeFile themselves.
WriteFault(op) == IF op \in LogMutations THEN CsvParseError("fs") ELSE RawError("fs")

\* What setupDuckDBTables rejects with when db.run reports an error.
ViewsFault == DataStoreError("CONNECTION_ERROR", RawError("duckdb"))

\* What the try block throws by itself when the mutation ends with outcome
\* before its rewrite: NOT_FOUND is thrown by the mutation, a row that does
\* not parse is a CsvParseError of readTaskLogsCsv, a missing name a TypeError
\* in saveTaskGroup, and getTaskGroups wraps what it catches.
ThrownInBody(op, outcome) ==
    CASE outcome = "NOT_FOUND" -> DataStoreError("NOT_FOUND", NoError)
      [] op \in LogMutations -> CsvParseError("parser")
      [] op = "saveTaskGroup" -> RawError("TypeError")
      [] OTHER -> DataStoreError("UNKNOWN", RawError("TypeError"))

\* The lower-level error at the bottom of error, if there is one.
RECURSIVE CauseOf(_)
CauseOf(error) ==
    IF error.class # "DataStoreError" THEN error
    ELSE IF error.details = NoError THEN NoError
    ELSE CauseOf(error.details)

\* error.code, or the class of an error that has no code.
CodeOf(error) == IF error.class = "DataStoreError" THEN error.code ELSE error.class

\* The callers of the step-by-step mutations.
StepCallers == {"a"}

\* The calls: a save, an update and a delete on each collection's samples.
StepCalls ==
    {[op |-> "saveTaskLog", id |-> EntryFoo.id, arg |-> EntryFoo]}
        \cup { [op |-> "updateTaskLog", id |-> id, arg |-> [content |-> <<"bar">>]] :
                  id \in LogIds }
        \cup { [op |-> "deleteTaskLog", id |-> id, arg |-> <<>>] : id \in LogIds }
        \cup { [op |-> "saveTaskGroup", id |-> group.id, arg |-> group] :
                  group \in {GroupWriting, GroupAdmin} }
        \cup { [op |-> "deleteTaskGroup", id |-> id, arg |-> <<>>] : id \in GroupIds }

\* What goes wrong in initialize(): nothing once isInitialized is set; else
\* the file system may fail the creation of a missing file, and DuckDB the
\* creation of the views.
InitFaults ==
    IF isInitialized THEN {"none"}
    ELSE {"none", "duckdb"} \cup (IF taskLogsCsv.exists /\ taskGroupsCsv.exists
                                  THEN {} ELSE {"fs"})

\* What the mutation of a call makes of its file as the file is now.
MutationOf(call) ==
    CASE call.op = "saveTaskLog" -> saveTaskLog(taskLogsCsv.content, call.arg, uuidCount, clock)
      [] call.op = "updateTaskLog" ->
            updateTaskLog(taskLogsCsv.content, call.id, call.arg, uuidCount, clock)
      [] call.op = "deleteTaskLog" -> deleteTaskLog(taskLogsCsv.content, call.id, uuidCount)
      [] call.op = "saveTaskGroup" ->
            [ content |-> saveTaskGroup(taskGroupsCsv.content, call.arg).content,
              minted |-> uuidCount,
              outcome |-> saveTaskGroup(taskGroupsCsv.content, call.arg).outcome ]
      [] OTHER ->
            [ content |-> deleteTaskGroup(taskGroupsCsv.content, call.id).content,
              minted |-> uuidCount,
              outcome |-> deleteTaskGroup(taskGroupsCsv.content, call.id).outcome ]

\* The call c ends: its try block (or initialize()) threw thrown, and error
\* reaches the caller.
Throws(c, thrown, error) ==
    [c EXCEPT !.pc = "done", !.outcome = CodeOf(error), !.error = error,
              !.cause = CauseOf(thrown)]

\* The call c has taken one more of its steps, and returns after the last.
Advanced(c, step) ==
    [c EXCEPT !.effects = Append(@, step),
              !.pc = IF Len(c.effects) + 1 = Len(MutationSteps) THEN "done" ELSE "run",
              !.outcome = IF Len(c.effects) + 1 = Len(MutationSteps) THEN "ok" ELSE "none"]

\* What the call of caller p leaves behind once it has returned or thrown.
Returned(p) ==
    LET c == calls'[p]
    IN  /\ last' = IF c.pc = "done"
                   THEN [op |-> c.op, id |-> c.arg.id, arg |-> c.arg.arg,
                         outcome |-> c.outcome, returned |-> c.answer]
                   ELSE last
        /\ savedIds' =
              CASE c.pc = "done" /\ c.outcome = "ok" /\ c.op = "saveTaskLog" ->
                      savedIds \cup {c.arg.id}
                [] c.pc = "done" /\ c.outcome = "ok" /\ c.op = "deleteTaskLog" ->
                      savedIds \ {c.arg.id}
                [] OTHER -> savedIds

\* initialize() as a call finds it: it returns, or the file system fails it
\* before a file is written, or DuckDB fails it once the files are there.
InitializeStep(fault) ==
    /\ taskLogsCsv' = IF fault = "fs" THEN taskLogsCsv ELSE InitializedLogs
    /\ taskGroupsCsv' = IF fault = "fs" THEN taskGroupsCsv ELSE InitializedGroups
    /\ isInitialized' = (isInitialized \/ fault = "none")
    /\ UNCHANGED driftVars
    /\ initRun' = CASE fault = "none" -> initialize
                    [] fault = "fs" -> NoInit
                    [] OTHER -> [initialize EXCEPT !.views = 0]

\* What initialize() throws on fault: its catch wraps what it caught, and
\* what setupDuckDBTables rejects with is a DataStoreError already.
InitializeError(fault) ==
    DataStoreError("CONNECTION_ERROR", IF fault = "fs" THEN RawError("fs") ELSE ViewsFault)

\* Caller p calls a mutation, which runs to the end of await this.initialize().
CallStep(p) ==
    /\ calls[p].pc \in {"idle", "done"}
    /\ \E call \in StepCalls, fault \in InitFaults :
          /\ call.op = "saveTaskLog" => Len(DataLines(InitializedLogs.content)) < MaxRows
          /\ call.op = "saveTaskGroup" => Len(DataLines(InitializedGroups.content)) < MaxRows
          /\ InitializeStep(fault)
          /\ calls' = [calls EXCEPT ![p] =
                          IF fault = "none"
                          THEN [Idle EXCEPT !.pc = "read", !.op = call.op, !.arg = call]
                          ELSE Throws([Idle EXCEPT !.op = call.op, !.arg = call],
                                      InitializeError(fault), InitializeError(fault))]
    /\ Returned(p)
    /\ UNCHANGED <<clock, uuidCount, written>>

\* The mutation of caller p reads its file and works out what to write: the
\* read fails, or the mutation throws before its rewrite, or it goes on.
ReadStep(p) ==
    /\ calls[p].pc = "read"
    /\ \E fault \in BOOLEAN :
          LET c == calls[p]
              r == MutationOf(c.arg)
          IN  /\ r.minted <= MaxUuid
              /\ calls' = [calls EXCEPT ![p] =
                              CASE fault -> Throws(c, ReadFault(c.op), Caught(c.op, ReadFault(c.op)))
                                [] r.outcome # "ok" ->
                                      Throws(c, ThrownInBody(c.op, r.outcome),
                                             Caught(c.op, ThrownInBody(c.op, r.outcome)))
                                [] OTHER -> [c EXCEPT !.pc = "run", !.pending = r.content]]
              /\ uuidCount' = IF fault THEN uuidCount ELSE r.minted
    /\ Returned(p)
    /\ UNCHANGED <<taskLogsCsv, taskGroupsCsv, isInitialized, clock, written, initRun, cache, dailyNote>>

\* The next step of the mutation of caller p.
StepOf(p) == MutationSteps[Len(calls[p].effects) + 1]

\* The mutation of caller p rewrites its file, or fs.writeFile fails.
WriteStep(p) ==
    /\ calls[p].pc = "run"
    /\ StepOf(p) = "writeFile"
    /\ \E fault \in BOOLEAN :
          LET c == calls[p]
              file == IF fault THEN <<taskLogsCsv, taskGroupsCsv>>
                      ELSE IF c.op \in LogMutations
                      THEN <<[exists |-> TRUE, content |-> c.pending], taskGroupsCsv>>
                      ELSE <<taskLogsCsv, [exists |-> TRUE, content |-> c.pending]>>
          IN  /\ taskLogsCsv' = file[1]
              /\ taskGroupsCsv' = file[2]
              /\ calls' = [calls EXCEPT ![p] =
                              IF fault
                              THEN Throws(c, WriteFault(c.op), Caught(c.op, WriteFault(c.op)))
                              ELSE Advanced(c, "writeFile")]
    /\ Returned(p)
    /\ UNCHANGED <<isInitialized, clock, uuidCount, written, initRun, cache, dailyNote>>

\* The mutation of caller p re-creates the views, or DuckDB fails.
ViewsStep(p) ==
    /\ calls[p].pc = "run"
    /\ StepOf(p) = "setupDuckDBTables"
    /\ \E fault \in BOOLEAN :
          calls' = [calls EXCEPT ![p] =
                       IF fault THEN Throws(calls[p], ViewsFault, Caught(calls[p].op, ViewsFault))
                       ELSE Advanced(calls[p], "setupDuckDBTables")]
    /\ Returned(p)
    /\ UNCHANGED <<taskLogsCsv, taskGroupsCsv, isInitialized, clock, uuidCount, written,
                   initRun, cache, dailyNote>>

\* Caller p calls isHealthy, which answers false whatever goes wrong: in
\* initialize(), in fs.access, in the test query.
HealthStep(p) ==
    /\ calls[p].pc \in {"idle", "done"}
    /\ isHealthy(uuidCount).minted <= MaxUuid
    /\ \E fault \in InitFaults \cup {"access", "query"} :
          LET init == IF fault \in {"fs", "duckdb"} THEN fault ELSE "none"
              thrown == CASE fault = "none" -> NoError
                          [] fault = "access" -> RawError("fs")
                          [] fault = "query" -> DataStoreError("UNKNOWN", RawError("duckdb"))
                          [] OTHER -> InitializeError(fault)
          IN  /\ InitializeStep(init)
              /\ calls' = [calls EXCEPT ![p] =
                              [Idle EXCEPT !.pc = "done", !.op = "isHealthy",
                                           !.arg = [op |-> "isHealthy", id |-> <<>>, arg |-> <<>>],
                                           !.outcome = "ok",
                                           !.answer = IF fault = "none"
                                                      THEN isHealthy(uuidCount).ok ELSE FALSE,
                                           !.cause = CauseOf(thrown)]]
              /\ uuidCount' = IF fault = "none" THEN isHealthy(uuidCount).minted ELSE uuidCount
    /\ Returned(p)
    /\ UNCHANGED <<clock, written>>

\* The two reads: getTaskLogs() through the task_logs view, getTaskGroups
\* through fs.readFile.
StepQueries == {"getTaskLogs", "getTaskGroups"}

\* What reaches the try block of a read when DuckDB fails the query
\* (executeCsvQuery rejects with a DataStoreError) or the file system the read.
QueryFault(op) ==
    IF op = "getTaskLogs" THEN DataStoreError("UNKNOWN", RawError("duckdb")) ELSE RawError("fs")

\* What the try block of a read throws by itself: executeCsvQuery rejects
\* with a VALIDATION_ERROR on a row that does not parse; getTaskGroups has
\* nothing of its own to throw but a TypeError.
ThrownInQuery(op) ==
    IF op = "getTaskLogs" THEN DataStoreError("VALIDATION_ERROR", CsvParseError("parser"))
    ELSE RawError("TypeError")

\* What a read makes of the files initialize() leaves.
QueryOf(op) ==
    IF op = "getTaskLogs" THEN getTaskLogs(InitializedLogs.content, NotGiven, uuidCount)
    ELSE { [ outcome |-> getTaskGroups(InitializedGroups.content).outcome,
             entries |-> getTaskGroups(InitializedGroups.content).groups,
             minted |-> uuidCount ] }

\* Caller p calls a read, which returns what it read or throws.
QueryStep(p) ==
    /\ calls[p].pc \in {"idle", "done"}
    /\ \E op \in StepQueries, fault \in InitFaults \cup {"body"} : \E r \in QueryOf(op) :
          LET c == [Idle EXCEPT !.op = op, !.arg = [op |-> op, id |-> <<>>, arg |-> <<>>]]
          IN  /\ r.minted <= MaxUuid
              /\ InitializeStep(IF fault = "body" THEN "none" ELSE fault)
              /\ calls' = [calls EXCEPT ![p] =
                              CASE fault = "body" ->
                                      Throws(c, QueryFault(op), Caught(op, QueryFault(op)))
                                [] fault # "none" ->
                                      Throws(c, InitializeError(fault), InitializeError(fault))
                                [] r.outcome # "ok" ->
                                      Throws(c, ThrownInQuery(op), Caught(op, ThrownInQuery(op)))
                                [] OTHER -> [c EXCEPT !.pc = "done", !.outcome = "ok",
                                                      !.answer = r.entries]]
              /\ uuidCount' = IF fault = "none" THEN r.minted ELSE uuidCount
    /\ Returned(p)
    /\ UNCHANGED <<clock, written>>

\* The process stops where it is, and a new DuckDBStore is constructed over
\* the same files.
StopStep ==
    /\ isInitialized
    /\ calls' = [p \in Callers |-> Idle]
    /\ isInitialized' = FALSE
    /\ last' = [NoCall EXCEPT !.op = "constructor"]
    /\ UNCHANGED driftVars
    /\ initRun' = NoInit
    /\ UNCHANGED <<taskLogsCsv, taskGroupsCsv, clock, uuidCount, savedIds, written>>

\* One caller, one mutation at a time, the file system and DuckDB failing at will.
NextSteps ==
    \/ \E p \in StepCallers :
          \/ CallStep(p)
          \/ ReadStep(p)
          \/ WriteStep(p)
          \/ ViewsStep(p)
          \/ QueryStep(p)
          \/ HealthStep(p)
    \/ StopStep

SpecSteps == Init /\ [][NextSteps]_vars

\* ------------------------------------------------------- task-group ids
\* A group whose color is text of two lines, the second of them beginning
\* with the id of the group and a comma.
GroupEcho ==
    [ id |-> <<"g2">>, name |-> <<"Admin">>, color |-> <<"red", "\n", "g2", ",", "foo">>,
      createdAt |-> toISOString(0), updatedAt |-> toISOString(0), isActive |-> TRUE ]

SaveEchoGroup ==
    /\ Len(DataLines(InitializedGroups.content)) < MaxRows
    /\ GroupCallDone("saveTaskGroup", GroupEcho.id, GroupEcho,
                     saveTaskGroup(InitializedGroups.content, GroupEcho))

\* The updates of a caller that renames a group or gives it another id.
GroupIdUpdates == {[name |-> <<"Admin">>], [id |-> <<"g2">>]}

UpdateTaskGroupId ==
    \E id \in GroupIds, updates \in GroupIdUpdates :
        GroupCallDone("updateTaskGroup", id, updates,
                      updateTaskGroup(InitializedGroups.content, id, updates, clock))

\* The documents of groups a caller imports.
GroupDocs ==
    { [taskGroups |-> <<GroupWriting, GroupNotes>>, taskLogs |-> <<>>],
      [taskGroups |-> <<GroupAdmin>>, taskLogs |-> <<>>] }

ImportGroups ==
    \E doc \in GroupDocs, overwrite \in BOOLEAN :
        ImportDone(doc, overwrite,
                   importData(InitializedLogs.content, InitializedGroups.content, doc,
                              overwrite, uuidCount, clock))

\* The task-group collection under saves, updates that may change the id,
\* deletes and imports.
NextGroupIds ==
    \/ SaveTaskGroup
    \/ SaveEchoGroup
    \/ UpdateTaskGroupId
    \/ DeleteTaskGroup
    \/ ImportGroups
    \/ Tick

SpecGroupIds == Init /\ [][NextGroupIds]_vars

\* ---- importData from its text ----

\* The text handed to importData: JSON.parse(data) throws on text that is not
\* JSON, and gives the document otherwise.
NotJson == [valid |-> FALSE, parsed |-> <<>>]

Json(doc) == [valid |-> TRUE, parsed |-> doc]

\* An importData that clears the two files before it parses the text.
importDataTextClearingFirst(logsContent, groupsContent, data, overwrite, minted, t) ==
    IF ~data.valid
    THEN [ taskLogs |-> IF overwrite THEN HeaderOnly(TaskLogsHeaderLine) ELSE logsContent,
           taskGroups |-> IF overwrite THEN HeaderOnly(TaskGroupsHeaderLine)
                          ELSE groupsContent,
           minted |-> minted, outcome |-> "VALIDATION_ERROR" ]
    ELSE importData(logsContent, groupsContent, data.parsed, overwrite, minted, t)

\* importData after initialize(): JSON.parse(data) is the first statement of the
\* try block, ahead of the two writeFile calls of options.overwrite; what it
\* throws leaves as VALIDATION_ERROR.
importDataText(logsContent, groupsContent, data, overwrite, minted, t) ==
    IF ~data.valid
    THEN [ taskLogs |-> logsContent, taskGroups |-> groupsContent,
           minted |-> minted, outcome |-> "VALIDATION_ERROR" ]
    ELSE importData(logsContent, groupsContent, data.parsed, overwrite, minted, t)

\* A group of the document that has no name.
GroupNameless == [GroupNotes EXCEPT !.name = Undefined]

\* An entry of the document whose date is the empty text.
Undated == [Midday EXCEPT !.date = <<>>]

\* The texts a caller imports: text that is not JSON; a document that imports;
\* one whose second group has no name; one whose second entry has no date.
ImportTexts ==
    { NotJson,
      Json([taskGroups |-> <<GroupWriting>>, taskLogs |-> <<Early>>]),
      Json([taskGroups |-> <<GroupWriting, GroupNameless, GroupComma>>, taskLogs |-> <<Early>>]),
      Json([taskGroups |-> <<GroupNotes>>, taskLogs |-> <<Early, Undated, Midday>>]) }

ImportTextDone(data, overwrite, r) ==
    /\ r.minted <= MaxUuid
    /\ Len(DataLines(r.taskLogs)) <= MaxImportRows
    /\ taskLogsCsv' = [exists |-> TRUE, content |-> r.taskLogs]
    /\ taskGroupsCsv' = [exists |-> TRUE, content |-> r.taskGroups]
    /\ isInitialized' = TRUE
    /\ uuidCount' = r.minted
    /\ savedIds' = IF r.outcome = "ok"
                   THEN (IF overwrite THEN {} ELSE savedIds)
                           \cup { data.parsed.taskLogs[k].id :
                                    k \in 1..Len(data.parsed.taskLogs) }
                   ELSE savedIds
    /\ last' = [op |-> "importData", id |-> <<>>,
                arg |-> [data |-> data, overwrite |-> overwrite],
                outcome |-> r.outcome, returned |-> <<>>]
    /\ UNCHANGED driftVars
    /\ initRun' = initialize
    /\ UNCHANGED <<clock, calls, written>>

ImportText ==
    \E data \in ImportTexts, overwrite \in BOOLEAN :
        ImportTextDone(data, overwrite,
                       importDataText(InitializedLogs.content, InitializedGroups.content,
                                      data, overwrite, uuidCount, clock))

\* The two collections with importData given text.
NextImportText ==
    \/ SaveTaskLog
    \/ SaveTaskGroup
    \/ ImportText

SpecImportText == Init /\ [][NextImportText]_vars

\* ---- initialize(), await by await ----

\* Where a call is inside initialize(): at fs.access or fs.writeFile of either
\* file in ensureCSVFilesExist, or at setupDuckDBTables.
InitPcs == {"accessLogs", "writeLogs", "accessGroups", "writeGroups", "views"}

\* An initialize() that lets one caller in: a call that finds another inside
\* initialize() waits for it.
EntryPointExclusive ==
    IF isInitialized THEN "read"
    ELSE IF \E q \in Callers : calls[q].pc \in InitPcs THEN "awaitInitialize"
    ELSE "accessLogs"

\* if (this.isInitialized) return; the first statement of initialize(), run as
\* the call is made: the call goes on to its body, or into ensureCSVFilesExist
\* (ensureDirectoryExists before it touches neither file).
EntryPoint == IF isInitialized THEN "read" ELSE "accessLogs"

\* Caller p calls saveTaskLog or saveTaskGroup; initialize() reads the flag.
BeginCall(p) ==
    /\ calls[p].pc = "idle"
    /\ \E call \in RaceCalls :
          calls' = [calls EXCEPT ![p] = [Idle EXCEPT !.pc = EntryPoint, !.op = call.op,
                                                     !.arg = call.arg]]
    /\ UNCHANGED <<taskLogsCsv, taskGroupsCsv, isInitialized, clock, uuidCount, savedIds,
                   last, written, initRun, cache, dailyNote>>

\* await fs.access(path) of caller p settles: the catch block is entered when
\* the file is not there.
InitAccess(p) ==
    /\ \/ /\ calls[p].pc = "accessLogs"
          /\ calls' = [calls EXCEPT ![p].pc = IF taskLogsCsv.exists THEN "accessGroups"
                                              ELSE "writeLogs"]
       \/ /\ calls[p].pc = "accessGroups"
          /\ calls' = [calls EXCEPT ![p].pc = IF taskGroupsCsv.exists THEN "views"
                                              ELSE "writeGroups"]
    /\ UNCHANGED <<taskLogsCsv, taskGroupsCsv, isInitialized, clock, uuidCount, savedIds,
                   last, written, initRun, cache, dailyNote>>

\* await fs.writeFile(path, headers, "utf8") of caller p, in the catch block of
\* fs.access.  initRun adds up what the calls of initialize() have done.
InitWriteHeader(p) ==
    /\ \/ /\ calls[p].pc = "writeLogs"
          /\ taskLogsCsv' = [exists |-> TRUE, content |-> HeaderOnly(TaskLogsHeaderLine)]
          /\ calls' = [calls EXCEPT ![p].pc = "accessGroups"]
          /\ UNCHANGED driftVars
          /\ initRun' = [initRun EXCEPT !.wrote = @ \cup {"task_logs.csv"}]
          /\ UNCHANGED taskGroupsCsv
       \/ /\ calls[p].pc = "writeGroups"
          /\ taskGroupsCsv' = [exists |-> TRUE, content |-> HeaderOnly(TaskGroupsHeaderLine)]
          /\ calls' = [calls EXCEPT ![p].pc = "views"]
          /\ UNCHANGED driftVars
          /\ initRun' = [initRun EXCEPT !.wrote = @ \cup {"task_groups.csv"}]
          /\ UNCHANGED taskLogsCsv
    /\ UNCHANGED <<isInitialized, clock, uuidCount, savedIds, last, written>>

\* await this.setupDuckDBTables() of caller p settles, and initialize() sets
\* this.isInitialized = true and returns to the body of the call.
InitViews(p) ==
    /\ calls[p].pc = "views"
    /\ isInitialized' = TRUE
    /\ UNCHANGED driftVars
    /\ initRun' = [initRun EXCEPT !.views = @ + 1]
    /\ calls' = [calls EXCEPT ![p].pc = "read"]
    /\ UNCHANGED <<taskLogsCsv, taskGroupsCsv, clock, uuidCount, savedIds, last, written>>

\* Two callers, a save each, on a fresh store instance.
NextInit ==
    \E p \in Callers :
        \/ BeginCall(p)
        \/ InitAccess(p)
        \/ InitWriteHeader(p)
        \/ InitViews(p)
        \/ ReadForSave(p)
        \/ WriteForSave(p)

SpecInit == Init /\ [][NextInit]_vars

\* ---- the drift logger and its cache ----

\* No more entries than this are appended to the daily note in a run.
MaxEntries == 2
\* No task group is created when the cache holds this many.
MaxCacheGroups == 1

\* A Date, by its getTime(): whole days since the epoch and milliseconds of
\* the day.  Every Date of a run is of the day of toISOString.
DateAt(ms) == [days |-> 19723, ms |-> ms]

\* new Date() at clock reading t.
NewDate(t) == DateAt(t)

\* new Date(date.getTime() + ms)
AddMs(date, ms) == [date EXCEPT !.ms = @ + ms]

\* The null a getter of the cache returns.
null == [null |-> TRUE]

\* The null getSelectedTaskGroupId returns in place of a string.
NullId == <<"<null>">>

\* parseTimeString: date-fns parse of "HH:mm" when the text has a colon, of
\* "HHmm" otherwise, on today: that hour and minute, zero seconds.
parseTimeString(timeStr) ==
    IF Includes(Chars(timeStr), <<":">>)
    THEN DateAt((ParseDigits(SubSeq(Chars(timeStr), 1, 2), 0) * 60
                    + ParseDigits(SubSeq(Chars(timeStr), 4, 5), 0)) * 60000)
    ELSE DateAt((ParseDigits(SubSeq(Chars(timeStr), 1, 2), 0) * 60
                    + ParseDigits(SubSeq(Chars(timeStr), 3, 4), 0)) * 60000)

\* cache.set(key, value)
CacheSet(c, key, value) == [c EXCEPT ![key] = [has |-> TRUE, value |-> value]]

\* saveDriftLoggerEndTime: JSON.stringify({ endTime: endTime.getTime() }) under
\* drift_logger_last_end_time.
saveDriftLoggerEndTime(c, endTime) ==
    CacheSet(c, "drift_logger_last_end_time", [endTime |-> endTime])

\* getLastDriftLoggerEndTime: data.endTime ? new Date(data.endTime) : null of
\* the parsed value, null when the key holds nothing; the number 0 is falsy.
getLastDriftLoggerEndTime(c) ==
    IF ~c["drift_logger_last_end_time"].has THEN null
    ELSE IF c["drift_logger_last_end_time"].value.endTime = [days |-> 0, ms |-> 0] THEN null
    ELSE c["drift_logger_last_end_time"].value.endTime

\* saveTaskGroups: JSON.stringify(taskGroups) under drift_logger_task_groups.
saveTaskGroups(c, taskGroups) == CacheSet(c, "drift_logger_task_groups", taskGroups)

\* getTaskGroups of cache.service.ts: the parsed array, [] when the key holds
\* nothing.
CachedTaskGroups(c) ==
    IF c["drift_logger_task_groups"].has THEN c["drift_logger_task_groups"].value ELSE <<>>

\* addTaskGroup: push and save.
addTaskGroup(c, taskGroup) == saveTaskGroups(c, Append(CachedTaskGroups(c), taskGroup))

saveSelectedTaskGroupId(c, taskGroupId) ==
    CacheSet(c, "drift_logger_selected_task_group", taskGroupId)

getSelectedTaskGroupId(c) ==
    IF c["drift_logger_selected_task_group"].has
    THEN c["drift_logger_selected_task_group"].value
    ELSE NullId

\* getSelectedTaskGroup: taskGroups.find((tg) => tg.id === selectedId) || null
\* for a selected id that is neither null nor "".
getSelectedTaskGroup(c) ==
    IF getSelectedTaskGroupId(c) \in {NullId, <<>>} THEN null
    ELSE IF \E k \in 1..Len(CachedTaskGroups(c)) :
                CachedTaskGroups(c)[k].id = getSelectedTaskGroupId(c)
    THEN CachedTaskGroups(c)[First({ k \in 1..Len(CachedTaskGroups(c)) :
                                       CachedTaskGroups(c)[k].id = getSelectedTaskGroupId(c) })]
    ELSE null

\* The second half of clearCache: what it saves to the cleared cache.
Restored(taskGroups, selectedTaskGroupId, lastEndTime) ==
    LET withGroups == IF Len(taskGroups) > 0 THEN saveTaskGroups(NoCache, taskGroups)
                      ELSE NoCache
        withSelected == IF selectedTaskGroupId \in {NullId, <<>>} THEN withGroups
                        ELSE saveSelectedTaskGroupId(withGroups, selectedTaskGroupId)
    IN  IF lastEndTime = null THEN withSelected
        ELSE saveDriftLoggerEndTime(withSelected, lastEndTime)

\* A clearCache that does not save the end time back.
clearCacheDroppingEndTime(c) ==
    Restored(CachedTaskGroups(c), getSelectedTaskGroupId(c), null)

\* clearCache: reads the task groups, the selected id and the last end time,
\* cache.clear(), and saves back those that are not empty.
clearCache(c) ==
    Restored(CachedTaskGroups(c), getSelectedTaskGroupId(c), getLastDriftLoggerEndTime(c))

\* A pin that takes the current time whatever start time it is given.
timeToSaveIgnoringStart(customStartTime, t) == NewDate(t)

\* The pin branch of DriftLogger: the start time given, or the current time.
timeToSave(customStartTime, t) ==
    IF IsFalsy(customStartTime) THEN NewDate(t) ELSE parseTimeString(customStartTime)

\* The start time of a log: of the start time and the minutes given, of the
\* minutes given counted back from now, or the last end time.
startTime(args, now, lastEndTime) ==
    IF ~IsFalsy(args.startTime) /\ ~IsFalsy(args.minutes) THEN parseTimeString(args.startTime)
    ELSE IF ~IsFalsy(args.minutes) THEN AddMs(now, 0 - ParseInt(args.minutes) * 60 * 1000)
    ELSE lastEndTime

\* Math.floor(diffMs / (1000 * 60)) of the time from lastEndTime to now.
MinutesSince(lastEndTime, now) ==
    ((now.days - lastEndTime.days) * 86400000 + now.ms - lastEndTime.ms) \div (1000 * 60)

calculatedMinutes(args, now, lastEndTime) ==
    IF ~IsFalsy(args.minutes) THEN ParseInt(args.minutes)
    ELSE MinutesSince(lastEndTime, now)

\* The end time of a log: start time plus minutes when both are given, now
\* otherwise.
endTime(args, now, lastEndTime) ==
    IF ~IsFalsy(args.startTime) /\ ~IsFalsy(args.minutes)
    THEN AddMs(startTime(args, now, lastEndTime), ParseInt(args.minutes) * 60 * 1000)
    ELSE now

\* The arguments of formatDriftLogEntry; the two times go in as their
\* toLocaleTimeString of hour and minute.
DriftLogEntry(args, now, lastEndTime, taskGroup) ==
    [ startTime |-> startTime(args, now, lastEndTime),
      endTime |-> endTime(args, now, lastEndTime),
      minutes |-> calculatedMinutes(args, now, lastEndTime),
      taskGroupName |-> IF taskGroup = null THEN Undefined ELSE taskGroup.name,
      content |-> args.text ]

\* executeWithTaskGroup after the entry is appended: saveSelectedTaskGroupId,
\* clearCache(), and then saveDriftLoggerEndTime(endTime).
executeWithTaskGroup(c, taskGroup, end) ==
    saveDriftLoggerEndTime(
        clearCache(saveSelectedTaskGroupId(c, IF taskGroup = null THEN <<>>
                                              ELSE taskGroup.id)),
        end)

\* The start times and minutes a command is given: none, or a text.
StartTimeTexts == {Undefined, <<"09:00">>, <<"0", "9", "3", "0">>}

MinutesTexts == {Undefined, <<"1", "0">>}

\* A drift-logger command has run; the data store is not involved.
DriftDone(op, arg, outcome, returned) ==
    /\ last' = [op |-> op, id |-> <<>>, arg |-> arg, outcome |-> outcome,
                returned |-> returned]
    /\ UNCHANGED <<taskLogsCsv, taskGroupsCsv, isInitialized, clock, savedIds, calls,
                   written, initRun>>

\* DriftLogger with text "pin".
Pin ==
    \E customStartTime \in StartTimeTexts :
        /\ cache' = saveDriftLoggerEndTime(cache, timeToSave(customStartTime, clock))
        /\ DriftDone("pin", [text |-> <<"pin">>, startTime |-> customStartTime], "ok", <<>>)
        /\ UNCHANGED <<dailyNote, uuidCount>>

\* The task groups the list offers: none, a new one named after the text, and
\* each of the cached ones.
Choices(c, text, minted) ==
    {null} \cup (IF Len(CachedTaskGroups(c)) < MaxCacheGroups /\ minted < MaxUuid
                 THEN {[id |-> Uuid(minted + 1), name |-> text]} ELSE {})
           \cup Range(CachedTaskGroups(c))

\* DriftLogger with a text to log, in a vault that is set up: it throws while
\* rendering when it is to continue and no end time is stored; otherwise the
\* user picks a task group, the entry is appended and the end time stored.
DriftLog ==
    \E text \in {<<"foo">>}, minutes \in MinutesTexts, customStartTime \in StartTimeTexts :
        LET args == [text |-> text, minutes |-> minutes, startTime |-> customStartTime]
            lastEndTime == getLastDriftLoggerEndTime(cache)
        IN  IF IsFalsy(minutes) /\ lastEndTime = null
            THEN /\ DriftDone("driftLog", args, "error", <<>>)
                 /\ UNCHANGED <<cache, dailyNote, uuidCount>>
            ELSE /\ Len(dailyNote) < MaxEntries
                 /\ \E taskGroup \in Choices(cache, text, uuidCount) :
                       LET isNew == taskGroup # null
                                       /\ taskGroup \notin Range(CachedTaskGroups(cache))
                           entry == DriftLogEntry(args, NewDate(clock), lastEndTime, taskGroup)
                       IN  /\ cache' = executeWithTaskGroup(
                                           IF isNew THEN addTaskGroup(cache, taskGroup)
                                           ELSE cache,
                                           taskGroup, entry.endTime)
                           /\ uuidCount' = IF isNew THEN uuidCount + 1 ELSE uuidCount
                           /\ dailyNote' = Append(dailyNote, entry)
                           /\ DriftDone("driftLog", args, "ok", entry)

\* cacheNotesFor(vault), from a command that lists notes: the notes of the
\* vault under vault.name.
CacheNotes ==
    /\ cache' = CacheSet(cache, "vault", [lastCached |-> NewDate(clock), notes |-> <<"note">>])
    /\ DriftDone("cacheNotesFor", <<>>, "ok", <<>>)
    /\ UNCHANGED <<dailyNote, uuidCount>>

\* clearCache() on its own.
ClearCache ==
    /\ cache' = clearCache(cache)
    /\ DriftDone("clearCache", <<>>, "ok", <<>>)
    /\ UNCHANGED <<dailyNote, uuidCount>>

\* The drift logger command and the cache it shares with the other commands.
NextDrift ==
    \/ Pin
    \/ DriftLog
    \/ CacheNotes
    \/ ClearCache
    \/ Tick

SpecDrift == Init /\ [][NextDrift]_vars

\* ------------------------------------------------------------------ claims
\* The number of entries the task-log file holds: one for each data line.
TaskLogCount(file) == Len(DataLines(file.content))

\* This step is a call of one of the operations ops (time does not pass
\* during a call).
IsCallOf(ops) == last'.op \in ops /\ clock' = clock

\* Every data row of the file passes validateTaskLogCsvRow.
RowsAreValid(file) ==
    \A row \in Range(ViewRows(file.content)) : validateTaskLogCsvRow(row) = 0

\* C1: saveTaskLog(e) with the id of an entry saved before replaces that entry
\* in place, so the number of entries is unchanged; with an id not saved
\* before it appends, so the number grows by one.  (Over a file of valid
\* rows: C5 is about the others.)
C1_SaveTaskLogUpserts ==
    [][ (IsCallOf({"saveTaskLog"}) /\ last'.outcome = "ok" /\ RowsAreValid(taskLogsCsv)) =>
            IF last'.id \in savedIds
            THEN TaskLogCount(taskLogsCsv') = TaskLogCount(taskLogsCsv)
            ELSE TaskLogCount(taskLogsCsv') = TaskLogCount(taskLogsCsv) + 1 ]_vars

\* C2: an entry is addressable by the id it was saved with: while it is
\* stored, deleteTaskLog(id) succeeds and removes one entry, and
\* updateTaskLog(id, u) succeeds and keeps the number of entries.  (Over a
\* file of valid rows.)
C2_SavedIdIsAddressable ==
    [][ ( /\ IsCallOf({"deleteTaskLog", "updateTaskLog"})
          /\ last'.id \in savedIds
          /\ RowsAreValid(taskLogsCsv) ) =>
            /\ last'.outcome = "ok"
            /\ TaskLogCount(taskLogsCsv') =
                  IF last'.op = "deleteTaskLog" THEN TaskLogCount(taskLogsCsv) - 1
                  ELSE TaskLogCount(taskLogsCsv) ]_vars

\* The ids of the groups getTaskGroups() returns from a file.
StoredGroupIds(file) == { g.id : g \in Range(getTaskGroups(file.content).groups) }

\* C3: updating or deleting an identifier that is not stored, in either
\* collection, raises NOT_FOUND and leaves both files as they were (as
\* initialize() leaves them, on a first call).
C3_MissingIdIsNotFound ==
    [][ ( \/ /\ IsCallOf({"updateTaskLog", "deleteTaskLog"})
             /\ last'.id \notin savedIds
          \/ /\ IsCallOf({"updateTaskGroup", "deleteTaskGroup"})
             /\ last'.id \notin StoredGroupIds(InitializedGroups) ) =>
            /\ last'.outcome = "NOT_FOUND"
            /\ taskLogsCsv' = InitializedLogs
            /\ taskGroupsCsv' = InitializedGroups ]_vars

\* C5: validation is enforced on write: every data row of the task-log file
\* satisfies the validation rule set, so getTaskLogs() never fails on a row
\* the store wrote.
C5_FileRowsAreValid == RowsAreValid(taskLogsCsv)

\* C9: no cascade: deleteTaskGroup and updateTaskGroup leave the task-log file
\* as it was, every row of it with its task_group_id and task_group_name.
C9_GroupCallsLeaveTaskLogs ==
    [][ IsCallOf({"deleteTaskGroup", "updateTaskGroup"}) =>
            /\ taskLogsCsv' = InitializedLogs
            /\ ViewRows(taskLogsCsv'.content) = ViewRows(taskLogsCsv.content) ]_vars

\* A group has been deleted and the file still holds an entry that refers to it.
C9_DeletedGroupStillReferenced ==
    /\ last.op = "deleteTaskGroup"
    /\ last.outcome = "ok"
    /\ \E row \in Range(ViewRows(taskLogsCsv.content)) :
          row.task_group_id = last.id /\ row.task_group_name = <<"Writing">>

\* g and h agree in id, name, color and isActive.
SameGroup(g, h) ==
    /\ Chars(g.id) = Chars(h.id)
    /\ Chars(g.name) = Chars(h.name)
    /\ Chars(g.color) = Chars(h.color)
    /\ g.isActive = h.isActive

\* The groups before (a sequence) and after a save of group, as the claim has them.
IsUpsertOf(before, after, group) ==
    /\ \E k \in 1..Len(after) : SameGroup(after[k], group)
    /\ IF \E k \in 1..Len(before) : before[k].id = group.id
       THEN /\ Len(after) = Len(before)
            /\ \A k \in 1..Len(before) :
                  \/ before[k].id = group.id /\ after[k].id = group.id
                  \/ before[k].id # group.id /\ after[k] = before[k]
       ELSE /\ Len(after) = Len(before) + 1
            /\ SubSeq(after, 1, Len(before)) = before
            /\ after[Len(after)].id = group.id

\* C10: saveTaskGroup(g) replaces the stored group with g's id at its position,
\* the others unchanged, or appends g when no group has that id; getTaskGroups()
\* afterwards holds a group equal to g in id, name, color and isActive.
C10_SaveTaskGroupUpserts ==
    [][ (IsCallOf({"saveTaskGroup"}) /\ last'.outcome = "ok") =>
            /\ getTaskGroups(taskGroupsCsv'.content).outcome = "ok"
            /\ IsUpsertOf(getTaskGroups(InitializedGroups.content).groups,
                          getTaskGroups(taskGroupsCsv'.content).groups,
                          last'.arg) ]_vars

\* The entries the task-log file holds, identifiers left out (a read mints
\* them anew).
StoredEntries(file) ==
    <<>> \o [k \in 1..Len(ViewRows(file.content)) |->
                csvRowToTaskLogEntry(ViewRows(file.content)[k], <<>>)]

WithoutId(entries) == { [entries[k] EXCEPT !.id = <<>>] : k \in 1..Len(entries) }

\* returned holds exactly the entries wanted.
ReturnsExactly(returned, wanted) ==
    /\ WithoutId(returned) = WithoutId(wanted)
    /\ Len(returned) = Len(wanted)

\* The position of the colon in a time of day, spelled out.
ColonAt(c) == First({ i \in 1..Len(c) : c[i] = ":" })

\* A time of day H:mm or HH:mm, spelled out, in minutes since midnight.
MinutesOf(c) ==
    ParseDigits(SubSeq(c, 1, ColonAt(c) - 1), 0) * 60
        + ParseDigits(SubSeq(c, ColonAt(c) + 1, Len(c)), 0)

TimeOfDay(t) == MinutesOf(Chars(t))

\* date a is not after date b (YYYY-MM-DD).
DateLeq(a, b) == ~TextLess(Chars(b), Chars(a))

\* The entries are in the order date descending, start time descending.
NewestFirst(entries) ==
    \A i, j \in 1..Len(entries) :
        i < j =>
            \/ ~DateLeq(entries[i].date, entries[j].date)
            \/ /\ Chars(entries[i].date) = Chars(entries[j].date)
               /\ TimeOfDay(entries[i].startTime) >= TimeOfDay(entries[j].startTime)

\* C6: getTaskLogs with a DateRangeFilter returns exactly the stored entries
\* whose date lies within [startDate, endDate], by date descending and, within
\* a date, by start time descending.  (Over a file of valid rows.)
C6_DateRangeIsInclusiveAndOrdered ==
    (last.op = "getTaskLogs" /\ last.arg.given /\ RowsAreValid(taskLogsCsv)) =>
        /\ last.outcome = "ok"
        /\ ReturnsExactly(last.returned,
                          SelectSeq(StoredEntries(taskLogsCsv),
                                    LAMBDA e : DateLeq(last.arg.startDate, e.date)
                                                  /\ DateLeq(e.date, last.arg.endDate)))
        /\ NewestFirst(last.returned)

\* e contains the query of a search filter in one of the fields the filter
\* names (both, when it names none), in the case the filter asks for.
SearchAccepts(search, e) ==
    \/ /\ ~search.fieldsGiven \/ "content" \in Range(search.fields)
       /\ Like(e.content, search.query, search.caseSensitive)
    \/ /\ ~search.fieldsGiven \/ "taskGroupName" \in Range(search.fields)
       /\ Like(e.taskGroupName, search.query, search.caseSensitive)

\* e satisfies every filter supplied.
FiltersAccept(filters, e) ==
    /\ filters.dateRange.given =>
          /\ DateLeq(filters.dateRange.startDate, e.date)
          /\ DateLeq(e.date, filters.dateRange.endDate)
    /\ (filters.timeRange.given /\ filters.timeRange.type \in {"custom", "business_hours"}) =>
          /\ TimeOfDay(filters.timeRange.startTime) <= TimeOfDay(e.startTime)
          /\ TimeOfDay(e.endTime) <= TimeOfDay(filters.timeRange.endTime)
    /\ (filters.taskGroup.given /\ filters.taskGroup.type \in {"specific", "multiple"}) =>
          e.taskGroupId \in Range(filters.taskGroup.selectedGroupIds)
    /\ filters.search.given => SearchAccepts(filters.search, e)

\* C7: getFilteredTaskLogs returns exactly the entries that satisfy every
\* filter supplied: a time range of type custom or business_hours and a
\* task-group filter of type specific or multiple each restrict the result.
\* (Over a file of valid rows, the search filter naming no fields: C8 is about
\* the fields.)
C7_FiltersCombineByAnd ==
    ( /\ last.op = "getFilteredTaskLogs"
      /\ RowsAreValid(taskLogsCsv)
      /\ ~(last.arg.search.given /\ last.arg.search.fieldsGiven) ) =>
        /\ last.outcome = "ok"
        /\ ReturnsExactly(last.returned,
                          SelectSeq(StoredEntries(taskLogsCsv),
                                    LAMBDA e : FiltersAccept(last.arg, e)))

\* The last call was a search, alone, with the search filter search.
SearchedWith(search) ==
    \/ last.op = "searchTaskLogs" /\ last.arg = search
    \/ /\ last.op = "getFilteredTaskLogs"
       /\ last.arg = Filters(NotGiven, NotGiven, NotGiven, search)

\* C8: a search with fields [content, taskGroupName] returns exactly the
\* entries whose content or taskGroupName contains the query, without regard
\* to case unless caseSensitive is true, through searchTaskLogs and through
\* the search member of getFilteredTaskLogs alike.  (Over a file of valid rows.)
C8_SearchMatchesEitherField ==
    \A search \in SearchFilters :
        ( /\ SearchedWith(search)
          /\ search.fieldsGiven
          /\ search.fields = <<"content", "taskGroupName">>
          /\ RowsAreValid(taskLogsCsv) ) =>
            /\ last.outcome = "ok"
            /\ ReturnsExactly(last.returned,
                              SelectSeq(StoredEntries(taskLogsCsv),
                                        LAMBDA e : SearchAccepts(search, e)))

\* The saves of p and q went to the same file, with different records, both
\* ended well, and both read the file before either rewrote it.
Overlapped(p, q) ==
    /\ p # q
    /\ calls[p].pc = "done" /\ calls[p].outcome = "ok"
    /\ calls[q].pc = "done" /\ calls[q].outcome = "ok"
    /\ calls[p].op = calls[q].op
    /\ calls[p].arg # calls[q].arg
    /\ calls[p].readAfter = {}
    /\ calls[q].readAfter = {}

\* The file the save of caller p went to.
FileOf(p) == IF calls[p].op = "saveTaskLog" THEN taskLogsCsv ELSE taskGroupsCsv

\* The file the save of caller p went to holds the record p saved.
HoldsRecordOf(p) ==
    IF calls[p].op = "saveTaskLog"
    THEN \E row \in Range(ViewRows(taskLogsCsv.content)) :
            row.content = calls[p].arg.content
    ELSE calls[p].arg.id \in StoredGroupIds(taskGroupsCsv)

\* C4: lost update: when two saves to one collection overlap and both report
\* success, the file holds only the change of the save that rewrote it last;
\* the record of the other save is absent.
C4_OverlappingSavesLoseAnUpdate ==
    \A p, q \in Callers :
        (Overlapped(p, q) /\ written = <<q, p>>) =>
            /\ FileOf(p).content = calls[p].pending
            /\ HoldsRecordOf(p)
            /\ ~HoldsRecordOf(q)

\* Two overlapping saves of entries have both reported success.
C4_BothSavesSucceeded ==
    \E p, q \in Callers :
        Overlapped(p, q) /\ written = <<q, p>> /\ calls[p].op = "saveTaskLog"

\* The task-log file holds a row with the content of entry, updated at t.
LogRowUpdatedAt(file, entry, t) ==
    \E k \in 1..Len(ViewRows(file.content)) :
        /\ Chars(ViewRows(file.content)[k].content) = Chars(escapeCsvValue(entry.content))
        /\ Chars(ViewRows(file.content)[k].updated_at) = Chars(toISOString(t))

\* The task-group file holds a line for the id of group, updated at t.
GroupRowUpdatedAt(file, group, t) ==
    \E k \in 1..Len(DataLines(file.content)) :
        /\ TaskGroupRowOfLine(DataLines(file.content)[k]).id = group.id
        /\ Chars(TaskGroupRowOfLine(DataLines(file.content)[k]).updated_at)
              = Chars(toISOString(t))

\* C11: every save rewrites updatedAt: after saveTaskLog(e) or saveTaskGroup(g)
\* has succeeded, the updated_at of the persisted record is the time of the
\* save, whatever updatedAt the argument carried.
C11_SaveRewritesUpdatedAt ==
    [][ /\ (IsCallOf({"saveTaskLog"}) /\ last'.outcome = "ok") =>
                LogRowUpdatedAt(taskLogsCsv', last'.arg, clock)
        /\ (IsCallOf({"saveTaskGroup"}) /\ last'.outcome = "ok") =>
                GroupRowUpdatedAt(taskGroupsCsv', last'.arg, clock) ]_vars

\* C12: initialization is idempotent.  A call that does no more to the files
\* than initialize() (isHealthy) leaves a file that was not there as the
\* header line and a newline, and a file that was there, so one an earlier
\* initialize() wrote, as it was; and once isInitialized is set, initialize()
\* writes no file and sets up no view.
C12_InitializeIsIdempotent ==
    [][ IsCallOf({"isHealthy"}) =>
            /\ ~taskLogsCsv.exists =>
                  taskLogsCsv' = [exists |-> TRUE, content |-> TaskLogsHeaderLine \o <<"\n">>]
            /\ ~taskGroupsCsv.exists =>
                  taskGroupsCsv' = [exists |-> TRUE, content |-> TaskGroupsHeaderLine \o <<"\n">>]
            /\ taskLogsCsv.exists => taskLogsCsv' = taskLogsCsv
            /\ taskGroupsCsv.exists => taskGroupsCsv' = taskGroupsCsv
            /\ isInitialized => initRun' = [wrote |-> {}, views |-> 0] ]_vars

\* initialize() has run a second time on a store that is still empty.
C12_InitializedTwice ==
    /\ last.op = "isHealthy"
    /\ isInitialized
    /\ initRun = [wrote |-> {}, views |-> 0]
    /\ taskLogsCsv.content = TaskLogsHeaderLine \o <<"\n">>
    /\ taskGroupsCsv.content = TaskGroupsHeaderLine \o <<"\n">>

\* The first line of the file is headerLine, and no other line of it is.
HeaderOnce(file, headerLine) ==
    /\ Split(file.content, "\n") # <<>>
    /\ Chars(Split(file.content, "\n")[1]) = Chars(headerLine)
    /\ \A k \in 2..Len(Split(file.content, "\n")) :
          Chars(Split(file.content, "\n")[k]) # Chars(headerLine)

\* C13: header invariant: once the store is initialized, and after any
\* sequence of saves, deletes and imports, each of the two files has its
\* header as its first line and holds that line once.
C13_HeaderOnce ==
    isInitialized =>
        /\ HeaderOnce(taskLogsCsv, TaskLogsHeaderLine)
        /\ HeaderOnce(taskGroupsCsv, TaskGroupsHeaderLine)

\* The stored group g is the group h of a document: every field but updatedAt.
IsGroupOf(g, h) ==
    /\ SameGroup(g, h)
    /\ Chars(g.createdAt) = Chars(h.createdAt)

\* The stored entry e is the log f of a document: every field but id and
\* updatedAt.
IsLogOf(e, f) ==
    /\ Chars(e.date) = Chars(f.date)
    /\ Chars(e.startTime) = Chars(f.startTime)
    /\ Chars(e.endTime) = Chars(f.endTime)
    /\ e.duration = f.duration
    /\ Chars(e.taskGroupId) = Chars(f.taskGroupId)
    /\ Chars(e.taskGroupName) = Chars(f.taskGroupName)
    /\ Chars(e.content) = Chars(f.content)
    /\ Chars(e.createdAt) = Chars(f.createdAt)

\* The two files hold the groups and the logs of the document, those and no
\* others, one row each.
HoldsExactly(groups, entries, doc) ==
    /\ Len(groups) = Len(doc.taskGroups)
    /\ \A k \in 1..Len(groups) : IsGroupOf(groups[k], doc.taskGroups[k])
    /\ Len(entries) = Len(doc.taskLogs)
    /\ \A k \in 1..Len(entries) : IsLogOf(entries[k], doc.taskLogs[k])

\* C14: importData(doc, {overwrite: true}) that succeeds leaves exactly the
\* groups of doc as the stored groups and exactly the logs of doc as the stored
\* task logs (apart from id and updatedAt), whatever the store held before.
C14_OverwriteImportReplacesAll ==
    [][ (IsCallOf({"importData"}) /\ last'.arg.overwrite /\ last'.outcome = "ok") =>
            /\ getTaskGroups(taskGroupsCsv'.content).outcome = "ok"
            /\ HoldsExactly(getTaskGroups(taskGroupsCsv'.content).groups,
                            StoredEntries(taskLogsCsv'),
                            last'.arg.document) ]_vars

\* The step imports, without overwrite, the document the call before it
\* exported, or the document the call before it imported in the same way.
ReimportsOwnData ==
    /\ IsCallOf({"importData"})
    /\ ~last'.arg.overwrite
    /\ last.outcome = "ok"
    /\ \/ last.op = "exportData" /\ last'.arg.document = last.returned
       \/ last.op = "importData" /\ last'.arg = last.arg

\* C15: importData without overwrite upserts by identifier: importing what
\* exportData returned from the same store, or importing a document a second
\* time, leaves the number of task logs and of task groups as it was.
C15_ImportUpsertsById ==
    [][ (ReimportsOwnData /\ last'.outcome = "ok") =>
            /\ TaskLogCount(taskLogsCsv') = TaskLogCount(taskLogsCsv)
            /\ Len(DataLines(taskGroupsCsv'.content)) = Len(DataLines(taskGroupsCsv.content)) ]_vars

BrokenRules(row) ==
    { i \in 1..Len(TASK_LOG_CSV_HEADERS) :
          RuleFails(TASK_LOG_CSV_HEADERS[i], row[TASK_LOG_CSV_HEADERS[i]]) }

\* The CsvParseError is that of the row at position k (row number k + 1, the
\* header being row 1) and of the rule at position i.
IsErrorOf(error, rows, k, i) ==
    /\ ~error.ok
    /\ error.entries = <<>>
    /\ error.row = k + 1
    /\ error.column = TASK_LOG_CSV_HEADERS[i]
    /\ error.originalData = rows[k][TASK_LOG_CSV_HEADERS[i]]

\* C17: a row that breaks rules makes csvRowToTaskLogEntry raise the
\* CsvParseError of the first rule it breaks, in header order: the column is
\* the rule's field, the row is the number passed in, the data is the value as
\* it was; no entry is returned for it.  Rows that break no rule are converted.
C17_FirstBrokenRuleIsReported ==
    last.op = "csvRowToTaskLogEntry" =>
        LET rows == last.arg
            bad == { k \in 1..Len(rows) : BrokenRules(rows[k]) # {} }
        IN  IF bad = {}
            THEN last.returned.ok /\ Len(last.returned.entries) = Len(rows)
            ELSE \E k \in bad : \E i \in BrokenRules(rows[k]) :
                    /\ \A j \in bad : k <= j
                    /\ \A j \in BrokenRules(rows[k]) : i <= j
                    /\ IsErrorOf(last.returned, rows, k, i)

\* A row that breaks two rules came second and was rejected for the first of
\* the two.
C17_TwoRulesBroken ==
    /\ last.op = "csvRowToTaskLogEntry"
    /\ Len(last.arg) = 2
    /\ Cardinality(BrokenRules(last.arg[2])) = 2
    /\ ~last.returned.ok
    /\ last.returned.row = 3

\* A field as the claim has it written: in double quotes, its quotes doubled,
\* when it holds the delimiter, a quote or a newline, and bare otherwise.
Quoted(value) ==
    IF \E i \in 1..Len(value) : value[i] \in {",", "\"", "\n"}
    THEN <<"\"">> \o ReplaceAll(value, <<"\"">>, <<"\"", "\"">>) \o <<"\"">>
    ELSE value

QuotedLine(fields) == Join(<<>> \o [i \in 1..Len(fields) |-> Quoted(Chars(fields[i]))], <<",">>)

\* The file holds the line of these fields, each written as Quoted has it.
HoldsQuotedLine(file, fields) ==
    \E k \in 1..Len(DataLines(file.content)) :
        Chars(DataLines(file.content)[k]) = QuotedLine(fields)

TaskLogFields(row) == <<>> \o [i \in 1..Len(TASK_LOG_CSV_HEADERS) |-> row[TASK_LOG_CSV_HEADERS[i]]]

TaskGroupFields(row) ==
    <<row.id, row.name, row.color, row.created_at, row.updated_at, row.is_active>>

\* getTaskGroups() holds a group with the name, color, timestamps and isActive
\* of group.
ReadsBack(file, group) ==
    /\ getTaskGroups(file.content).outcome = "ok"
    /\ \E k \in 1..Len(getTaskGroups(file.content).groups) :
          /\ SameGroup(getTaskGroups(file.content).groups[k], group)
          /\ Chars(getTaskGroups(file.content).groups[k].createdAt) = Chars(group.createdAt)
          /\ Chars(getTaskGroups(file.content).groups[k].updatedAt) = Chars(group.updatedAt)

\* C18: both files are written with quoting: the line a save writes holds each
\* field in double quotes with its quotes doubled when it contains the
\* delimiter, a quote or a newline, and bare otherwise; so a saved group is
\* read back by getTaskGroups() with its name, color, timestamps and isActive.
C18_BothFilesAreQuoted ==
    [][ /\ (IsCallOf({"saveTaskLog"}) /\ last'.outcome = "ok") =>
                HoldsQuotedLine(taskLogsCsv',
                                TaskLogFields(taskLogEntryToCsvRow(NewEntry(last'.arg, 0, clock))))
        /\ (IsCallOf({"saveTaskGroup"}) /\ last'.outcome = "ok") =>
                /\ HoldsQuotedLine(taskGroupsCsv', TaskGroupFields(taskGroupToCsvRow(last'.arg)))
                /\ ReadsBack(taskGroupsCsv', last'.arg) ]_vars

\* The physical lines of a file's content: the pieces its line feeds end.
PhysicalLines(content) ==
    IF content = <<>> THEN <<>>
    ELSE IF content[Len(content)] = "\n"
         THEN SubSeq(Split(content, "\n"), 1, Len(Split(content, "\n")) - 1)
         ELSE Split(content, "\n")

\* C19: after writeTaskLogsCsv(entries) the file has 1 + |entries| physical
\* lines, whatever the fields of the entries hold, line terminators in content
\* or taskGroupName included, and readTaskLogsCsv returns |entries| entries.
C19_OneEntryOneLine ==
    last.op = "writeTaskLogsCsv" =>
        /\ Len(PhysicalLines(Chars(last.returned.content))) = 1 + Len(last.arg)
        /\ last.returned.read.ok
        /\ Len(last.returned.read.entries) = Len(last.arg)

RECURSIVE TokensFrom(_, _, _, _, _, _)
\* The rows of fields of a text as the claim has them, from position i on:
\* field and row are the field and the row being read, rows the rows read.
\* Inside quotes two quotes are one quote and a delimiter or a line feed is a
\* character of the field; outside quotes a delimiter ends the field and a
\* line feed ends the row.
TokensFrom(text, i, field, row, rows, inQuotes) ==
    IF i > Len(text)
    THEN IF field = <<>> /\ row = <<>> THEN rows ELSE Append(rows, Append(row, field))
    ELSE IF inQuotes
         THEN IF text[i] = "\"" /\ i + 1 <= Len(text) /\ text[i + 1] = "\""
              THEN TokensFrom(text, i + 2, Append(field, "\""), row, rows, TRUE)
              ELSE IF text[i] = "\""
                   THEN TokensFrom(text, i + 1, field, row, rows, FALSE)
                   ELSE TokensFrom(text, i + 1, Append(field, text[i]), row, rows, TRUE)
         ELSE IF text[i] = "\""
              THEN TokensFrom(text, i + 1, field, row, rows, TRUE)
              ELSE IF text[i] = ","
                   THEN TokensFrom(text, i + 1, <<>>, Append(row, field), rows, FALSE)
                   ELSE IF text[i] = "\n"
                        THEN TokensFrom(text, i + 1, <<>>, <<>>,
                                        Append(rows, Append(row, field)), FALSE)
                        ELSE TokensFrom(text, i + 1, Append(field, text[i]), row, rows, FALSE)

Tokens(text) == TokensFrom(text, 1, <<>>, <<>>, <<>>, FALSE)

\* C20: content is parsed into rows of fields so that, inside a quoted field,
\* two quotes in a row are one quote and neither a delimiter nor a newline ends
\* the field or the row, and outside quotes each delimiter ends a field.
C20_QuotedFieldsAreTokenized ==
    last.op = "parseCsvContent" => last.returned = Tokens(last.arg)

SettingsCalls == {"saveSetting", "getSetting", "deleteSetting"}

IsNotImplemented(result) ==
    /\ result.threw
    /\ \E i \in 1..Len(result.message) : result.message[i] = "not implemented"

IsUnsupportedType(result) ==
    /\ result.threw
    /\ result.code = "VALIDATION_ERROR"
    /\ result.message[1] = "Unsupported storage type: "

\* What C22 says of the kinds that are not the CSV backend.
OtherKindsAreRefused(config, result) ==
    /\ config.type \in {"local", "firestore", "obsidian"} => IsNotImplemented(result)
    /\ config.type \notin {"duckdb", "local", "firestore", "obsidian"} =>
            IsUnsupportedType(result)

\* C22, as stated: createDataStore returns a DuckDBStore exactly when
\* config.type is the CSV backend kind, throws "not implemented" for local,
\* firestore and obsidian, and an "unsupported type" VALIDATION_ERROR for any
\* other type.
C22_FactoryDispatchesOnType ==
    last.op = "createDataStore" =>
        /\ ~last.returned.threw <=> last.arg.type = "duckdb"
        /\ OtherKindsAreRefused(last.arg, last.returned)

\* C22, amended: createDataStore returns a DuckDBStore exactly when config.type
\* is the CSV backend kind and duckdbConfig is there; with the CSV backend kind
\* and no duckdbConfig it throws a VALIDATION_ERROR; the rest as stated.
C22_FactoryDispatchesOnTypeAndConfig ==
    last.op = "createDataStore" =>
        /\ ~last.returned.threw <=> (last.arg.type = "duckdb" /\ last.arg.duckdbConfig.given)
        /\ (last.arg.type = "duckdb" /\ ~last.arg.duckdbConfig.given) =>
                /\ last.returned.threw
                /\ last.returned.code = "VALIDATION_ERROR"
                /\ ~IsUnsupportedType(last.returned)
        /\ ~last.returned.threw => last.returned.store = "DuckDBStore"
        /\ OtherKindsAreRefused(last.arg, last.returned)

\* createDataStore was given the CSV backend kind without a duckdbConfig.
C22_CsvKindWithoutConfig ==
    /\ last.op = "createDataStore"
    /\ last.arg.type = "duckdb"
    /\ ~last.arg.duckdbConfig.given
    /\ last.returned.threw

\* A config whose type and populated sub-configurations do not match, in the
\* three ways C23 lists.
IsMismatch(config) ==
    \/ config.type = "duckdb" /\ ~config.duckdbConfig.given
    \/ config.type # "duckdb" /\ config.duckdbConfig.given
    \/ config.type = "duckdb" /\ (config.firebaseConfig.given \/ config.obsidianConfig.given)

\* C23: a config whose type does not match its populated sub-configuration is
\* rejected with a VALIDATION_ERROR, and no store is constructed.
C23_MismatchIsRejected ==
    (last.op = "createDataStore" /\ IsMismatch(last.arg)) =>
        last.returned.threw /\ last.returned.code = "VALIDATION_ERROR"

\* C25: when the task-log file holds a row that violates a validation rule,
\* saveTaskLog, getTaskLogs() without a filter, updateTaskLog and deleteTaskLog
\* each fail with kind VALIDATION_ERROR and leave the file as it was.
C25_MalformedRowIsValidationError ==
    [][ ( /\ taskLogsCsv.exists
          /\ ~RowsAreValid(taskLogsCsv)
          /\ \/ IsCallOf({"saveTaskLog", "updateTaskLog", "deleteTaskLog"})
             \/ IsCallOf({"getTaskLogs"}) /\ ~last'.arg.given ) =>
            /\ last'.outcome = "VALIDATION_ERROR"
            /\ taskLogsCsv' = taskLogsCsv ]_vars

\* The dates of the data rows of the task-log file.
StoredDates(file) ==
    { Chars(ViewRows(file.content)[k].date) : k \in 1..Len(ViewRows(file.content)) }

\* C26: getStats reports the number of data rows of each file, the sum of the
\* sizes of both files, and the least and the greatest date of the stored
\* entries, both the empty string when there is none; it changes no file.
C26_StatsMatchFiles ==
    [][ IsCallOf({"getStats"}) =>
            /\ taskLogsCsv' = InitializedLogs
            /\ taskGroupsCsv' = InitializedGroups
            /\ last'.outcome = "ok" =>
                  /\ last'.returned.totalTaskLogs = Len(DataLines(taskLogsCsv'.content))
                  /\ last'.returned.totalTaskGroups = Len(DataLines(taskGroupsCsv'.content))
                  /\ last'.returned.storageSize =
                        Len(Chars(taskLogsCsv'.content)) + Len(Chars(taskGroupsCsv'.content))
                  /\ IF StoredDates(taskLogsCsv') = {}
                     THEN /\ last'.returned.dateRange.earliest = <<>>
                          /\ last'.returned.dateRange.latest = <<>>
                     ELSE /\ Chars(last'.returned.dateRange.earliest) \in StoredDates(taskLogsCsv')
                          /\ Chars(last'.returned.dateRange.latest) \in StoredDates(taskLogsCsv')
                          /\ \A d \in StoredDates(taskLogsCsv') :
                                /\ DateLeq(last'.returned.dateRange.earliest, d)
                                /\ DateLeq(d, last'.returned.dateRange.latest) ]_vars

\* getStats has answered for a store whose entries are not in the order of
\* their dates, and that holds a group.
C26_StatsOfUnorderedStore ==
    /\ last.op = "getStats"
    /\ last.outcome = "ok"
    /\ last.returned.totalTaskLogs = 3
    /\ last.returned.totalTaskGroups > 0
    /\ Chars(last.returned.dateRange.latest) # Chars(ViewRows(taskLogsCsv.content)[3].date)

\* The ids of the entries a read returned.
ReturnedIds(entries) == { entries[k].id : k \in 1..Len(entries) }

\* C28: the entries read from the file carry newly minted ids: no read returns
\* an id that was passed to saveTaskLog, the entries of one read have ids of
\* their own, and two reads of the same unchanged file return, row by row,
\* entries with different ids.
C28_ReadsMintFreshIds ==
    [][ (IsCallOf({"getTaskLogs"}) /\ last'.outcome = "ok") =>
            /\ ReturnedIds(last'.returned) \cap savedIds' = {}
            /\ Cardinality(ReturnedIds(last'.returned)) = Len(last'.returned)
            /\ ( /\ last.op = "getTaskLogs"
                 /\ last.outcome = "ok"
                 /\ ~last.arg.given
                 /\ ~last'.arg.given
                 /\ taskLogsCsv' = taskLogsCsv ) =>
                    /\ Len(last'.returned) = Len(last.returned)
                    /\ \A k \in 1..Len(last'.returned) :
                          last'.returned[k].id # last.returned[k].id ]_vars

\* The file has been read twice in a row, and it holds two entries, saved
\* under ids the caller chose.
C28_ReadTwice ==
    /\ last.op = "getTaskLogs"
    /\ last.outcome = "ok"
    /\ ~last.arg.given
    /\ Len(last.returned) = 2
    /\ uuidCount >= 4
    /\ Cardinality(savedIds) = 2

\* Timestamp a is not after timestamp b (both as toISOString writes them).
NotAfter(a, b) == ~TextLess(Chars(b), Chars(a))

\* C29: every persisted record has updatedAt >= createdAt, whatever createdAt
\* the caller of a save or an update supplied.
C29_UpdatedNotBeforeCreated ==
    /\ \A row \in Range(ViewRows(taskLogsCsv.content)) : NotAfter(row.created_at, row.updated_at)
    /\ getTaskGroups(taskGroupsCsv.content).outcome = "ok" =>
          \A group \in Range(getTaskGroups(taskGroupsCsv.content).groups) :
              NotAfter(group.createdAt, group.updatedAt)

\* C30: every stored TaskLogEntry and TaskGroup has a non-empty id: the
\* entries read from the task-log file, and the records of the task-group
\* file, whatever saves came before.
C30_StoredIdsAreNotEmpty ==
    /\ (taskLogsCsv.exists /\ readTaskLogsCsv(taskLogsCsv.content, uuidCount).ok) =>
          \A entry \in Range(readTaskLogsCsv(taskLogsCsv.content, uuidCount).entries) :
              entry.id # <<>>
    /\ taskGroupsCsv.exists =>
          \A line \in Range(DataLines(taskGroupsCsv.content)) : Split(line, ",")[1] # <<>>

\* error is a DataStoreError that has cause in its details, or in the details
\* of the DataStoreError it has there.
RECURSIVE Carries(_, _)
Carries(error, cause) ==
    /\ error.class = "DataStoreError"
    /\ \/ error.details = cause
       \/ Carries(error.details, cause)

FileOfMutation(op) == IF op \in LogMutations THEN taskLogsCsv ELSE taskGroupsCsv

\* C27: a mutation re-creates the views only once it has rewritten its file,
\* which holds the new content by then; it returns without throwing only once
\* it has done both, in that order; one that ends before its rewrite has
\* re-created no view; and when the process stops between the two, the file
\* holds the new content.
C27_RewriteThenViews ==
    [][\A p \in StepCallers :
          LET c == calls[p]
              d == calls'[p]
              ends == c.pc # "done" /\ d.pc = "done" /\ d.op \in LogMutations \cup GroupMutations
          IN  /\ (Len(d.effects) = Len(c.effects) + 1 /\ d.effects[Len(d.effects)] = "setupDuckDBTables")
                    => c.effects = <<"writeFile">> /\ FileOfMutation(c.op).content = c.pending
              /\ (ends /\ d.outcome = "ok") => d.effects = <<"writeFile", "setupDuckDBTables">>
              /\ (ends /\ "writeFile" \notin Range(d.effects))
                    => "setupDuckDBTables" \notin Range(d.effects)
              /\ (c.pc = "run" /\ c.effects = <<"writeFile">> /\ d.pc = "idle")
                    => (IF c.op \in LogMutations THEN taskLogsCsv' ELSE taskGroupsCsv').content
                          = c.pending
      ]_vars

\* deleteTaskGroup has returned: it has rewritten task_groups.csv and then
\* re-created the views.
C27_DeletedThenRefreshed ==
    \E p \in StepCallers :
        /\ calls[p].pc = "done"
        /\ calls[p].op = "deleteTaskGroup"
        /\ calls[p].outcome = "ok"
        /\ calls[p].effects = <<"writeFile", "setupDuckDBTables">>
        /\ taskGroupsCsv.content = calls[p].pending

\* C39: when deleteTaskGroup removes the last group of the file, the file is
\* again what initialize() wrote: the header line and one newline.
C39_DeletingLastGroupRestoresHeader ==
    [][ ( /\ IsCallOf({"deleteTaskGroup"})
          /\ last'.outcome = "ok"
          /\ getTaskGroups(taskGroupsCsv'.content).groups = <<>> ) =>
            taskGroupsCsv'.content = HeaderOnly(TaskGroupsHeaderLine) ]_vars

\* The groups getTaskGroups() returns from a file.
GroupsIn(file) == getTaskGroups(file.content).groups

\* C37: updateTaskGroup(id, updates) on a stored id succeeds and changes only
\* that group: as many groups as before, each other group as it was and where
\* it was, the target at its position with the fields of updates, updatedAt
\* the time of the update and every other field as it was; task_logs.csv is
\* as initialize() leaves it.
C37_UpdateChangesOnlyItsGroup ==
    [][ ( /\ IsCallOf({"updateTaskGroup"})
          /\ last'.id \in StoredGroupIds(InitializedGroups) ) =>
            LET before == GroupsIn(InitializedGroups)
                after == GroupsIn(taskGroupsCsv')
                k == IndexOfId(before, last'.id)
            IN  /\ last'.outcome = "ok"
                /\ Len(after) = Len(before)
                /\ \A j \in 1..Len(before) : j # k => after[j] = before[j]
                /\ after[k] = [Merge(before[k], last'.arg) EXCEPT !.updatedAt = toISOString(clock)]
                /\ taskLogsCsv' = InitializedLogs ]_vars

\* updateTaskGroup has renamed the first of two stored groups.
C37_FirstOfTwoRenamed ==
    /\ last.op = "updateTaskGroup"
    /\ last.outcome = "ok"
    /\ Len(GroupsIn(taskGroupsCsv)) = 2
    /\ last.id = GroupsIn(taskGroupsCsv)[1].id
    /\ GroupsIn(taskGroupsCsv)[1].name = <<"Admin">>
    /\ GroupsIn(taskGroupsCsv)[1].updatedAt = toISOString(MaxClock)

\* The ids of the rows of task_groups.csv: the first field of each data line.
RowIds(file) ==
    <<>> \o [k \in 1..Len(DataLines(file.content)) |-> Split(DataLines(file.content)[k], ",")[1]]

\* C35: whatever saves, updates, deletes and imports of groups have run, no
\* two rows of task_groups.csv have the same id, and a deleteTaskGroup(id) of
\* a stored id leaves one row less.
C35_GroupIdsAreUnique ==
    [][ /\ \A i, j \in 1..Len(RowIds(taskGroupsCsv')) :
              i # j => RowIds(taskGroupsCsv')[i] # RowIds(taskGroupsCsv')[j]
        /\ ( /\ IsCallOf({"deleteTaskGroup"})
             /\ last'.id \in Range(RowIds(InitializedGroups)) ) =>
                Len(RowIds(taskGroupsCsv')) = Len(RowIds(InitializedGroups)) - 1 ]_vars

\* The outcome and the entries of the last call are among results.
IsResultOf(call, results) ==
    \E r \in results : r.outcome = call.outcome /\ r.entries = call.returned

\* C38: what searchTaskLogs(s) returns or throws is what
\* getFilteredTaskLogs({search: s}) can return or throw on the same store,
\* and the other way round.
C38_SearchPathsAgree ==
    [][ /\ IsCallOf({"searchTaskLogs"}) =>
              IsResultOf(last', getFilteredTaskLogs(InitializedLogs.content,
                                                    Filters(NotGiven, NotGiven, NotGiven, last'.arg),
                                                    uuidCount))
        /\ ( /\ IsCallOf({"getFilteredTaskLogs"})
             /\ last'.arg.search # NotGiven
             /\ last'.arg = Filters(NotGiven, NotGiven, NotGiven, last'.arg.search) ) =>
              IsResultOf(last', searchTaskLogs(InitializedLogs.content, last'.arg.search,
                                               uuidCount)) ]_vars

\* Entry read is entry written but for its id.
SameButId(read, entry) == [read EXCEPT !.id = entry.id] = entry

\* C33: readTaskLogsCsv of what writeTaskLogsCsv wrote returns as many entries
\* as were written, in their order, each equal to the one written in every
\* field but id.
C33_TaskLogsRoundTrip ==
    last.op = "writeTaskLogsCsv" =>
        /\ last.returned.read.ok
        /\ Len(last.returned.read.entries) = Len(last.arg)
        /\ \A k \in 1..Len(last.arg) : SameButId(last.returned.read.entries[k], last.arg[k])


\* The ids of the first j groups of a document.
IdsOfFirst(groups, j) == <<>> \o [k \in 1..j |-> groups[k].id]

\* The two files hold the first j groups and the first m entries of doc and,
\* with overwrite, nothing else; without it the rows before are still there.
HoldsFirst(doc, j, m, overwrite, logsBefore, groupsBefore, logsAfter, groupsAfter) ==
    /\ m > 0 => j = Len(doc.taskGroups)
    /\ j + m < Len(doc.taskGroups) + Len(doc.taskLogs)
    /\ Range(IdsOfFirst(doc.taskGroups, j)) \subseteq Range(RowIds(groupsAfter))
    /\ IF overwrite
       THEN /\ RowIds(groupsAfter) = IdsOfFirst(doc.taskGroups, j)
            /\ Len(DataLines(logsAfter.content)) = m
       ELSE /\ Range(RowIds(groupsBefore)) \subseteq Range(RowIds(groupsAfter))
            /\ Len(DataLines(logsAfter.content)) = Len(DataLines(logsBefore.content)) + m

\* C36: importData of text that is not JSON fails with VALIDATION_ERROR and
\* leaves both files as initialize() left them, with overwrite too; an
\* importData that fails on a record of the document fails with
\* VALIDATION_ERROR and is not rolled back: the records before the failing one
\* are in the files, and with overwrite nothing of the content before is.
C36_ImportFailuresAreNotRolledBack ==
    [][ (IsCallOf({"importData"}) /\ last'.outcome # "ok") =>
            /\ last'.outcome = "VALIDATION_ERROR"
            /\ ~last'.arg.data.valid =>
                   /\ taskLogsCsv' = InitializedLogs
                   /\ taskGroupsCsv' = InitializedGroups
            /\ last'.arg.data.valid =>
                   \E j \in 0..Len(last'.arg.data.parsed.taskGroups) :
                       \E m \in 0..Len(last'.arg.data.parsed.taskLogs) :
                           HoldsFirst(last'.arg.data.parsed, j, m, last'.arg.overwrite,
                                      InitializedLogs, InitializedGroups,
                                      taskLogsCsv', taskGroupsCsv') ]_vars

\* An overwriting import that failed on its second group left the first group
\* as the only row of task_groups.csv.
C36_FirstGroupKept ==
    /\ last.op = "importData"
    /\ last.outcome = "VALIDATION_ERROR"
    /\ last.arg.data.valid
    /\ last.arg.overwrite
    /\ RowIds(taskGroupsCsv) = <<GroupWriting.id>>
    /\ Len(last.arg.data.parsed.taskGroups) = 3

\* An overwriting import of text that is not JSON left the rows of both files.
C36_NotJsonKeptRows ==
    /\ last.op = "importData"
    /\ ~last.arg.data.valid
    /\ last.arg.overwrite
    /\ DataLines(taskLogsCsv.content) # <<>>
    /\ DataLines(taskGroupsCsv.content) # <<>>


C36_TwoEntriesKept ==
    /\ last.op = "importData"
    /\ last.outcome = "VALIDATION_ERROR"
    /\ last.arg.data.valid
    /\ last.arg.overwrite
    /\ Len(last.arg.data.parsed.taskLogs) = 3
    /\ Len(DataLines(taskLogsCsv.content)) = 2


\* C31: the flag gives no mutual exclusion: a call made before isInitialized is
\* set enters ensureCSVFilesExist whether or not another call is inside
\* initialize(); once inside, a call goes through the file-ensure steps and
\* setupDuckDBTables whatever the flag has become, and every such call sets the
\* views up once more.
C31_InitializeIsNotExclusive ==
    [][ \A p \in Callers :
            /\ (calls[p].pc = "idle" /\ calls'[p].pc # "idle" /\ ~isInitialized) =>
                   calls'[p].pc = "accessLogs"
            /\ (calls[p].pc \in InitPcs /\ calls'[p].pc # calls[p].pc) =>
                   /\ calls'[p].pc \in InitPcs \cup {"read"}
                   /\ calls'[p].pc = "read" <=> calls[p].pc = "views"
            /\ (calls[p].pc = "views" /\ calls'[p].pc = "read") =>
                   initRun'.views = initRun.views + 1 ]_vars

\* Both callers found isInitialized false and both ran setupDuckDBTables.
C31_ViewsSetUpTwice ==
    /\ initRun.views = 2
    /\ \A p \in Callers : calls[p].pc \in {"read", "write", "done"}

\* C34: the header-only write of ensureCSVFilesExist never replaces a file that
\* holds data rows.
C34_HeaderWriteKeepsRows ==
    [][ \A p \in Callers :
            /\ (calls[p].pc = "writeLogs" /\ calls'[p].pc # "writeLogs") =>
                   DataLines(taskLogsCsv.content) = <<>>
            /\ (calls[p].pc = "writeGroups" /\ calls'[p].pc # "writeGroups") =>
                   DataLines(taskGroupsCsv.content) = <<>> ]_vars


\* What the three getters of the drift logger return on a cache.
DriftView(c) ==
    [ taskGroups |-> CachedTaskGroups(c),
      selectedTaskGroup |-> getSelectedTaskGroup(c),
      lastEndTime |-> getLastDriftLoggerEndTime(c) ]

\* C32: the drift logger with text "pin" sets the stored last end time to the
\* start time given, or to the current time when none is given, and nothing
\* else: no entry is appended, the task groups, the selected task group and
\* every other key of the cache are as before.
C32_PinOnlySetsEndTime ==
    [][ IsCallOf({"pin"}) =>
            /\ getLastDriftLoggerEndTime(cache') =
                   (IF last'.arg.startTime = Undefined THEN NewDate(clock)
                    ELSE DateAt((9 * 60 + (IF last'.arg.startTime = <<"09:00">> THEN 0 ELSE 30))
                                    * 60000))
            /\ dailyNote' = dailyNote
            /\ CachedTaskGroups(cache') = CachedTaskGroups(cache)
            /\ getSelectedTaskGroup(cache') = getSelectedTaskGroup(cache)
            /\ \A key \in CacheKeys \ {"drift_logger_last_end_time"} :
                   cache'[key] = cache[key] ]_vars

\* A pin at 0930 after a log that selected a task group, with notes cached.
C32_PinnedAtGivenTime ==
    /\ last.op = "pin"
    /\ last.arg.startTime = <<"0", "9", "3", "0">>
    /\ getLastDriftLoggerEndTime(cache) = DateAt(34200000)
    /\ getSelectedTaskGroup(cache) # null
    /\ dailyNote # <<>>
    /\ cache["vault"].has


\* C40: clearCache() removes the cached notes and keeps what getTaskGroups(),
\* getSelectedTaskGroup() and getLastDriftLoggerEndTime() return; a completed
\* log leaves its end time stored; caching notes keeps the stored end time; a
\* log without minutes raises an error when no end time is stored and starts
\* at the stored end time otherwise; and once an entry has been appended an
\* end time is stored.
C40_ContinuityAcrossClearCache ==
    [][ /\ IsCallOf({"clearCache"}) =>
               /\ ~cache'["vault"].has
               /\ DriftView(cache') = DriftView(cache)
        /\ IsCallOf({"cacheNotesFor"}) => DriftView(cache') = DriftView(cache)
        /\ (IsCallOf({"driftLog"}) /\ last'.outcome = "ok") =>
               /\ getLastDriftLoggerEndTime(cache') = last'.returned.endTime
               /\ ~cache'["vault"].has
               /\ dailyNote' = Append(dailyNote, last'.returned)
        /\ (IsCallOf({"driftLog"}) /\ last'.arg.minutes = Undefined) =>
               IF getLastDriftLoggerEndTime(cache) = null
               THEN last'.outcome = "error" /\ cache' = cache /\ dailyNote' = dailyNote
               ELSE /\ last'.outcome = "ok"
                    /\ last'.returned.startTime = getLastDriftLoggerEndTime(cache)
        /\ dailyNote' # <<>> => getLastDriftLoggerEndTime(cache') # null ]_vars

\* Two entries, the second without minutes and starting where the first, of
\* ten minutes from 09:00 in a task group, ended.
C40_ContinuedFromLastLog ==
    /\ Len(dailyNote) = 2
    /\ last.op = "driftLog"
    /\ last.arg.minutes = Undefined
    /\ dailyNote[2].startTime = dailyNote[1].endTime
    /\ dailyNote[1].endTime = DateAt(32400000 + 600000)
    /\ CachedTaskGroups(cache) # <<>>

\* A log without minutes continued from a pin.
C40_ContinuedFromPin ==
    /\ Len(dailyNote) = 1
    /\ last.op = "driftLog"
    /\ last.arg.minutes = Undefined
    /\ dailyNote[1].startTime = DateAt(34200000)

\* A log without minutes on a cache that never held an end time.
C40_NothingToContinue ==
    /\ last.op = "driftLog"
    /\ last.outcome = "error"
    /\ dailyNote = <<>>

====
